---- MODULE Spec2Model ----
(***************************************************************************)
(* The frame capture -> compress -> decompress pipeline of the renderer    *)
(* crate: VideoRecorder (video_recorder.rs), VideoFrame (video_frame.rs),  *)
(* Compressor (compressor.rs) and Decompressor (decompressor.rs).          *)
(***************************************************************************)
EXTENDS Integers, Sequences, FiniteSets, TLC

(***************************************************************************)
(* Bounds of the model.                                                    *)
(***************************************************************************)
\* Renders of the recorded pipeline per recorder.
MaxCaptures == 3
\* Frame sizes are drawn from 1..MaxFrameSize (units of bytes).
MaxFrameSize == 2
\* The configured budget is drawn from 0..MaxBudget.
MaxBudget == 1

\* Records handed to compress_to_disk in a round trip.
MaxRecords == 3
\* Compression worker threads (num_cpus::get()) are drawn from 1..MaxWorkers.
MaxWorkers == 2

\* Shard files of a session read back with arbitrary contents.
MaxShards == 2
\* Their records carry frame numbers drawn from 0..MaxFrameNo.
MaxFrameNo == 3
\* Calls of FfmpegPipe::write.
MaxWrites == 4
\* Session timestamps 1..MaxSessions.
MaxSessions == 2

(***************************************************************************)
(* VideoFrame (video_frame.rs).                                            *)
(***************************************************************************)
FrameStatus == {"Captured", "Dropped", "Missing"}

\* Option<ImageData>: None, or Some(payload bytes).
None == [some |-> FALSE, bytes |-> <<>>]

Some(b) == [some |-> TRUE, bytes |-> b]

\* What the GPU copy leaves in the buffer of frame n: the rendered pixels, an
\* input of the pipeline. Distinct frames get distinct contents.
Pixels(n, size) == [i \in 1..size |-> (16 * n + i) % 256]

VideoFrame(status, image_data, n, size) ==
  [status |-> status, image_data |-> image_data,
   frame_number |-> n, frame_size_in_bytes |-> size]

\* impl Drop for VideoFrame: the amount taken off the shared counter.
DropAmount(f) == IF f.image_data.some THEN f.frame_size_in_bytes ELSE 0

\* A drop that leaves the shared counter alone.
SumDropNone(fs) == 0

RECURSIVE SumDrop(_)
SumDrop(fs) == IF fs = <<>> THEN 0 ELSE DropAmount(Head(fs)) + SumDrop(Tail(fs))

(***************************************************************************)
(* State.                                                                  *)
(***************************************************************************)
VARIABLES
  \* Renderer / VideoRecorder
  recorder,                  \* renderer.recorder is Some
  max_buffer_size_in_bytes,  \* VideoRecorder.max_buffer_size_in_bytes
  buffer_size_in_bytes,      \* the shared live-byte counter (Arc<AtomicUsize>)
  video_frames,              \* InnerV.video_frames
  frame_states,              \* InnerV.frame_states: 0=dropped 1=mapping 2=mapped 3=failed
  frame_number,              \* InnerV.frame_number
  cap_pc,                    \* position inside create_buffer_if_within_memory_limit
  cap_local,                 \* its locals prev_size and frame_size_in_bytes
  panicked,                  \* process_mapped_buffers hit the panic!
  \* the consumer of the capture callback
  live,                      \* delivered frames a consumer still owns
  \* history
  created,                   \* every record pushed to video_frames, in order
  delivered,                 \* every record passed to process_function, in order
  ledger,                    \* per frame_number: additions and subtractions applied
  blocked_ready,             \* a frame tick left a mapped record behind a pending one
  \* Compressor
  sender,                    \* Compressor.sender is Some
  channel,                   \* the records in the crossbeam channel
  threads,                   \* per worker thread: "recv", "write" or "exited"
  held,                      \* per worker thread: the record it received
  files,                     \* per worker thread: the bytes written to its shard
  fin_pc,                    \* position inside Compressor::finish
  joined,                    \* worker threads finish has joined
  accepted,                  \* every record compress_to_disk sent, in order
  \* Decompressor
  on_disk,                   \* per shard file: it is still in the directory
  dec_pc,                    \* position inside order_frames_from_worker_threads
  workers,                   \* the Vec<Worker>: shards whose reader is still open
  drain_i,                   \* the worker drain_filter is at
  rd_pos,                    \* per shard: bytes its reader thread has consumed
  min_heap,                  \* the BinaryHeap of (VideoFrame, T)
  expected_frame,
  advanced_by_at_least_one_frame,
  next_available_frame,
  emitted,                   \* every call of in_order_function, in order
  \* FfmpegPipe
  output_filename,           \* FfmpegPipe.output_filename: None, or Some(name)
  child,                     \* FfmpegPipe.child: 0 for None, else the n-th process spawned
  ffmpeg_timestamp,          \* FfmpegPipe.timestamp: 0 for None
  prev_bytes,                \* FfmpegPipe.prev_bytes
  spawned,                   \* every ffmpeg process spawned: its timestamp and output file
  writes,                    \* every write_all to a child's stdin, in order
  calls,                     \* every call of FfmpegPipe::write, in order
  sink_pc,                   \* "alive", or how drop ended: "dropped", "unwound", "panicked"
  awaited,                   \* the processes Child::wait was called on
  exit_failed,               \* the processes that exited with a non-zero status
  \* Decompressor::decompress_from_disk over a directory of several sessions
  file_timestamp,            \* per shard file: the timestamp in its name
  remove_files_after_decompression,
  scanned,                   \* the files scan_directory_for_timestamps returned
  dec_timestamp,             \* the timestamp of the group being processed (0: none yet)
  \* history
  intact,                    \* per shard file: the bytes its worker thread wrote
  \* Renderer::start_recording and stop_recording
  position_in_recording,     \* per Pipeline: "None", "NotLast" or "Last"
  clock,                     \* the last reading of Utc::now(), in milliseconds
  compressor_timestamp,      \* Compressor.timestamp of the callback's Compressor (0: none)
  \* history
  api_calls,                 \* the calls of start_recording and stop_recording, in order
  landed,                    \* every record compress_to_disk was given: span, shard timestamp
  \* Compressor with a bounded channel
  max_frames_queued,         \* None, or Some(channel_capacity)
  pending,                   \* the record of a compress_to_disk call blocked in send
  \* RenderThread
  fn_channel,                \* the FunctionCalls sent and not yet received
  rv_channel,                \* the ReturnValues sent and not yet received
  executing,                 \* the FunctionCall the render thread is executing (0: none)
  executed,                  \* history: the calls the render thread finished, in order
  client_pc,                 \* "idle", or "recv" inside synchronize
  fn_calls,                  \* history: every FunctionCall sent, in order
  returns,                   \* history: per return of synchronize, what had finished
  \* the reader threads of Decompressor::spawn_worker
  reader_pc,                 \* per shard file: "read", "send" or "closed"
  reader_held,               \* per shard file: the record its reader is sending
  reader_log,                \* history: per shard file, the decodes and the receives
  \* history
  map_requests,              \* the frame_numbers map_async was called for, in order
  \* CaptureStream (capture_stream.rs); its counter, budget and frame_number are
  \* the variables of the same name above
  stream_buffers,            \* Inner.stream_buffers
  map_futures,               \* Inner.map_futures: "none", "pending", "ready" or "failed"
  \* history
  comp_calls                 \* the calls made on a finished Compressor, with how each ended

capVars == <<recorder, max_buffer_size_in_bytes, buffer_size_in_bytes, video_frames,
             frame_states, frame_number, cap_pc, cap_local, panicked, live,
             created, delivered, ledger, blocked_ready>>

compVars == <<sender, channel, threads, held, files, fin_pc, joined, accepted>>

decVars == <<on_disk, dec_pc, workers, drain_i, rd_pos, min_heap, expected_frame,
             advanced_by_at_least_one_frame, next_available_frame, emitted>>

\* The recorder's variables other than the counter and its ledger.
capRest == <<recorder, max_buffer_size_in_bytes, video_frames, frame_states,
             frame_number, cap_pc, cap_local, panicked, live, created, delivered,
             blocked_ready>>

pipeVars == <<output_filename, child, ffmpeg_timestamp, prev_bytes, spawned, writes,
              calls, sink_pc, awaited, exit_failed>>

sessVars == <<file_timestamp, remove_files_after_decompression, scanned, dec_timestamp>>

recVars == <<position_in_recording, clock, compressor_timestamp, api_calls, landed>>

boundVars == <<max_frames_queued, pending>>

rtVars == <<fn_channel, rv_channel, executing, executed, client_pc, fn_calls, returns>>

rdrVars == <<reader_pc, reader_held, reader_log>>

mapVars == <<map_requests>>

strVars == <<stream_buffers, map_futures>>

finVars == <<comp_calls>>

\* What the recorder, the Compressor and the reassembly loop leave alone.
extVars == <<pipeVars, sessVars, intact, recVars, boundVars, rtVars, rdrVars, mapVars, strVars, finVars>>

vars == <<capVars, compVars, decVars, extVars>>

\* FfmpegPipe::new is not called: there is no encode sink.
NoFfmpegPipe ==
  /\ output_filename = None
  /\ child = 0
  /\ ffmpeg_timestamp = 0
  /\ prev_bytes = None
  /\ spawned = <<>>
  /\ writes = <<>>
  /\ calls = <<>>
  /\ sink_pc = "alive"
  /\ awaited = {}
  /\ exit_failed = {}

\* One session in the directory and no call of decompress_from_disk as a whole.
NoSessions ==
  /\ file_timestamp = [w \in DOMAIN files |-> 1]
  /\ remove_files_after_decompression = FALSE
  /\ scanned = {}
  /\ dec_timestamp = 0

\* The shard files are as their worker threads wrote them.
NoDamage == intact = files

\* Pipelines in the program.
MaxPipelines == 2

\* Pipeline::new: position_in_recording = RecordingPosition::None; no call of
\* start_recording or stop_recording yet, and no Compressor.
NoRecording ==
  /\ position_in_recording = [p \in 1..MaxPipelines |-> "None"]
  /\ clock = 1
  /\ compressor_timestamp = 0
  /\ api_calls = <<>>
  /\ landed = <<>>

\* create_channel(None): the channel is unbounded and no send ever blocks.
Unbounded ==
  /\ max_frames_queued = None
  /\ pending = <<>>

\* RenderThread::new is not called.
NoRenderThread ==
  /\ fn_channel = <<>>
  /\ rv_channel = <<>>
  /\ executing = 0
  /\ executed = <<>>
  /\ client_pc = "idle"
  /\ fn_calls = <<>>
  /\ returns = <<>>

\* The reader threads are not looked at one by one: a recv of the coordinator
\* stands for the reader's step as well.
NoReaders ==
  /\ reader_pc = <<>>
  /\ reader_held = <<>>
  /\ reader_log = <<>>

\* initiate_buffer_mapping has not been called.
NoMapRequests == map_requests = <<>>

NoCaptureStream == stream_buffers = <<>> /\ map_futures = <<>>

NoCallsAfterFinish == comp_calls = <<>>

NoExtras ==
  /\ NoFfmpegPipe /\ NoSessions /\ NoDamage /\ NoRecording /\ Unbounded
  /\ NoRenderThread /\ NoReaders /\ NoMapRequests /\ NoCaptureStream /\ NoCallsAfterFinish

(***************************************************************************)
(* VideoRecorder::new and the capture decision.                            *)
(***************************************************************************)
NoLocal == [prev_size |-> 0, frame_size_in_bytes |-> 0]

NoLedger == [n \in 1..(MaxCaptures + MaxRecords) |-> [added |-> 0, subtracted |-> 0]]

InitRecorder ==
  /\ recorder = TRUE
  /\ max_buffer_size_in_bytes \in 0..MaxBudget
  /\ buffer_size_in_bytes = 0
  /\ video_frames = <<>>
  /\ frame_states = <<>>
  /\ frame_number = 0
  /\ cap_pc = "idle"
  /\ cap_local = NoLocal
  /\ panicked = FALSE
  /\ live = {}
  /\ created = <<>>
  /\ delivered = <<>>
  /\ ledger = NoLedger
  /\ blocked_ready = FALSE

\* A budget test on the value after the addition.
DropFrameAfterAdd(prev_size, frame_size, max) == prev_size + frame_size > max

\* No recorder is installed (Renderer::new_with_surface: recorder = None).
NoRecorder ==
  /\ recorder = FALSE
  /\ max_buffer_size_in_bytes = 0
  /\ buffer_size_in_bytes = 0
  /\ video_frames = <<>>
  /\ frame_states = <<>>
  /\ frame_number = 0
  /\ cap_pc = "idle"
  /\ cap_local = NoLocal
  /\ panicked = FALSE
  /\ live = {}
  /\ created = <<>>
  /\ delivered = <<>>
  /\ ledger = NoLedger
  /\ blocked_ready = FALSE

\* A comparison that drops a frame when the counter has reached the budget.
DropFrameAtLimit(prev_size, frame_size, max) == prev_size >= max

\* let drop_frame = prev_size > self.max_buffer_size_in_bytes;
DropFrame(prev_size, frame_size, max) == prev_size > max

\* A revert that stores the value read before the addition.
RevertByStore(counter, prev_size, frame_size) == prev_size

\* inner.buffer_size_in_bytes.fetch_sub(frame_size_in_bytes, Relaxed) on the drop path.
Revert(counter, prev_size, frame_size) == counter - frame_size

\* A frame number that only counts the frames that were kept.
NextFrameNumberKeptOnly(n, drop_frame) == IF drop_frame THEN n ELSE n + 1

\* inner.frame_number += 1, on both paths.
NextFrameNumber(n, drop_frame) == n + 1

LedgerAdd(l, n) == [l EXCEPT ![n].added = @ + 1]

LedgerSub(l, n) == [l EXCEPT ![n].subtracted = @ + 1]

\* A buffer that is created whether or not the frame is dropped.
BufferAlways(drop_frame, n, size) == Some(Pixels(n, size))

\* let buffer = if drop_frame { ...; None } else { Some(device.create_buffer(..)) }
Buffer(drop_frame, n, size) == IF drop_frame THEN None ELSE Some(Pixels(n, size))

\* create_buffer_if_within_memory_limit up to and including the fetch_add.
CaptureAdd(size) ==
  /\ recorder /\ ~panicked /\ cap_pc = "idle"
  /\ frame_number < MaxCaptures
  /\ cap_local' = [prev_size |-> buffer_size_in_bytes, frame_size_in_bytes |-> size]
  /\ buffer_size_in_bytes' = buffer_size_in_bytes + size
  /\ cap_pc' = "added"
  /\ ledger' = LedgerAdd(ledger, frame_number + 1)
  /\ UNCHANGED <<recorder, max_buffer_size_in_bytes, video_frames, frame_states,
                 frame_number, panicked, live, created, delivered, blocked_ready>>

\* The rest of create_buffer_if_within_memory_limit: the comparison, the revert or
\* the buffer allocation, the frame number and the push_back.
CaptureDecide ==
  /\ cap_pc = "added"
  /\ LET size == cap_local.frame_size_in_bytes
         drop_frame == DropFrame(cap_local.prev_size, size, max_buffer_size_in_bytes)
         n == NextFrameNumber(frame_number, drop_frame)
         status == IF drop_frame THEN "Dropped" ELSE "Captured"
         image_data == Buffer(drop_frame, n, size)
         f == VideoFrame(status, image_data, n, size)
     IN /\ buffer_size_in_bytes' =
             IF drop_frame
             THEN Revert(buffer_size_in_bytes, cap_local.prev_size, size)
             ELSE buffer_size_in_bytes
        /\ ledger' = IF drop_frame THEN LedgerSub(ledger, frame_number + 1) ELSE ledger
        /\ frame_number' = n
        /\ video_frames' = Append(video_frames, f)
        /\ created' = Append(created, [frame |-> f, prev_size |-> cap_local.prev_size])
  /\ cap_pc' = "idle"
  /\ cap_local' = NoLocal
  /\ UNCHANGED <<recorder, max_buffer_size_in_bytes, frame_states, panicked, live,
                 delivered, blocked_ready>>

(***************************************************************************)
(* The per-frame steps: initiate_buffer_mapping and process_mapped_buffers.*)
(***************************************************************************)
\* A loop that takes no entry of video_frames to have a state yet.
NeverInitiated(states, i) == FALSE

\* if inner.frame_states.get(i).is_some() { continue; }
AlreadyInitiated(states, i) == i <= Len(states)

\* for i in 0..video_frames.len(): skip the entries that have a state, push 1
\* (mapping, with a map_async request) for a record with image data, 0 otherwise.
RECURSIVE InitiateBufferMapping(_, _, _)
InitiateBufferMapping(frames, states, i) ==
  IF i > Len(frames) THEN states
  ELSE IF AlreadyInitiated(states, i) THEN InitiateBufferMapping(frames, states, i + 1)
  ELSE InitiateBufferMapping(
         frames, Append(states, IF frames[i].image_data.some THEN 1 ELSE 0), i + 1)

\* A loop that knows no placeholder of a dropped frame.
DeliverableMappedOnly(frame_state) == frame_state = 2

\* A loop that passes on a record whose map failed.
DeliverableOrFailed(frame_state) == frame_state \in {0, 2, 3}

\* A loop that passes on a record whose map is still pending, as if it had waited.
DeliverableOrPending(frame_state) == frame_state \in {0, 1, 2}

\* match frame_state { 0 | 2 => deliver, 1 => break, _ => panic }
Deliverable(frame_state) == frame_state \in {0, 2}

\* A loop that passes on every record that is ready, wherever it is queued.
RECURSIVE ProcessAnyReady(_, _, _)
ProcessAnyReady(frames, states, out) ==
  IF frames = <<>> \/ states = <<>>
  THEN [frames |-> frames, states |-> states, out |-> out, panic |-> FALSE]
  ELSE LET r == ProcessAnyReady(Tail(frames), Tail(states),
                  IF Deliverable(states[1]) THEN Append(out, Head(frames)) ELSE out)
       IN IF Deliverable(states[1]) THEN r
          ELSE [r EXCEPT !.frames = <<Head(frames)>> \o @,
                         !.states = <<states[1]>> \o @]

\* The loop of process_mapped_buffers: what is left of both queues, the records
\* passed to process_function in order, and whether the loop panicked (a failed
\* map, or indexing frame_states[0] on an empty queue).
RECURSIVE ProcessMappedBuffers(_, _, _)
ProcessMappedBuffers(frames, states, out) ==
  IF frames = <<>>
  THEN [frames |-> frames, states |-> states, out |-> out, panic |-> FALSE]
  ELSE IF states = <<>>
  THEN [frames |-> frames, states |-> states, out |-> out, panic |-> TRUE]
  ELSE IF Deliverable(states[1])
  THEN ProcessMappedBuffers(Tail(frames), Tail(states), Append(out, Head(frames)))
  ELSE IF states[1] = 1
  THEN [frames |-> frames, states |-> states, out |-> out, panic |-> FALSE]
  ELSE [frames |-> frames, states |-> states, out |-> out, panic |-> TRUE]

\* A mapped record is queued behind the pending head.
ReadyBehindPending(states) ==
  /\ states # <<>>
  /\ states[1] = 1
  /\ \E i \in 2..Len(states) : states[i] = 2

\* What one finish_frame does to the queues: initiate_buffer_mapping, then
\* process_mapped_buffers.
Tick ==
  ProcessMappedBuffers(
    video_frames, InitiateBufferMapping(video_frames, frame_states, 1), <<>>)

\* Renderer::finish_frame with a recorder installed; what process_function does
\* with the records of Tick.out is the caller's.
FinishFrame ==
  /\ recorder /\ ~panicked /\ cap_pc = "idle"
  /\ video_frames' = Tick.frames
  /\ frame_states' = Tick.states
  /\ delivered' = delivered \o Tick.out
  /\ panicked' = Tick.panic
  /\ blocked_ready' = (blocked_ready \/ ReadyBehindPending(Tick.states))
  /\ UNCHANGED <<recorder, max_buffer_size_in_bytes, frame_number, cap_pc, cap_local,
                 created>>

\* The map_async callback of the i-th queued record: frame_state_.store(2 or 3).
MapCallback(i, result_is_ok) ==
  /\ ~panicked
  /\ i \in 1..Len(frame_states)
  /\ frame_states[i] = 1
  /\ frame_states' = [frame_states EXCEPT ![i] = IF result_is_ok THEN 2 ELSE 3]
  /\ UNCHANGED <<recorder, max_buffer_size_in_bytes, buffer_size_in_bytes, video_frames,
                 frame_number, cap_pc, cap_local, panicked, live, created, delivered,
                 ledger, blocked_ready>>

MapComplete(i) == MapCallback(i, TRUE)

MapFail(i) == MapCallback(i, FALSE)

\* A process_function that keeps the records; their owner drops them later.
HoldForRelease(out) ==
  /\ live' = live \cup {out[k] : k \in 1..Len(out)}
  /\ UNCHANGED <<buffer_size_in_bytes, ledger>>

\* finish_frame of a recorder whose process_function keeps the records.
FinishFrameHold == FinishFrame /\ HoldForRelease(Tick.out)

\* A consumer thread drops a record it owns (impl Drop for VideoFrame).
Release(f) ==
  /\ ~panicked
  /\ f \in live
  /\ live' = live \ {f}
  /\ buffer_size_in_bytes' = buffer_size_in_bytes - DropAmount(f)
  /\ ledger' = IF f.image_data.some THEN LedgerSub(ledger, f.frame_number) ELSE ledger
  /\ UNCHANGED <<recorder, max_buffer_size_in_bytes, video_frames, frame_states,
                 frame_number, cap_pc, cap_local, panicked, created, delivered,
                 blocked_ready>>

RECURSIVE LedgerSubAll(_, _)
LedgerSubAll(l, fs) ==
  IF fs = <<>> THEN l
  ELSE LedgerSubAll(IF Head(fs).image_data.some
                    THEN LedgerSub(l, Head(fs).frame_number) ELSE l, Tail(fs))

\* Renderer::stop_recording: the recorder is dropped with its queues.
StopRecording ==
  /\ recorder /\ ~panicked /\ cap_pc = "idle"
  /\ recorder' = FALSE
  /\ buffer_size_in_bytes' = buffer_size_in_bytes - SumDrop(video_frames)
  /\ ledger' = LedgerSubAll(ledger, video_frames)
  /\ video_frames' = <<>>
  /\ frame_states' = <<>>
  /\ UNCHANGED <<max_buffer_size_in_bytes, frame_number, cap_pc, cap_local, panicked,
                 live, created, delivered, blocked_ready>>

(***************************************************************************)
(* Compressor (compressor.rs).                                             *)
(***************************************************************************)
\* const U64_LEN: usize = mem::size_of::<u64>();
U64_LEN == 8

RECURSIVE ByteAt(_, _)
\* Byte k of n, counted from the least significant one.
ByteAt(n, k) == IF k = 0 THEN n % 256 ELSE ByteAt(n \div 256, k - 1)

\* u64::to_be_bytes
ToBeBytes(n) == [i \in 1..U64_LEN |-> ByteAt(n, U64_LEN - i)]

RECURSIVE FromBeBytes(_)
\* u64::from_be_bytes
FromBeBytes(b) ==
  IF b = <<>> THEN 0 ELSE b[Len(b)] + 256 * FromBeBytes(SubSeq(b, 1, Len(b) - 1))

StatusCode(status) ==
  CASE status = "Captured" -> 0 [] status = "Dropped" -> 1 [] OTHER -> 2

\* bincode::encode_to_vec(&video_frame): the derived encoding of the fields, in
\* declaration order; ImageData itself encodes to nothing, its Option to a tag
\* byte. The geometry fields and the counter's value pass through unchanged and
\* are left out of the model.
EncodeFrame(f) ==
  <<StatusCode(f.status), IF f.image_data.some THEN 1 ELSE 0,
    f.frame_number, f.frame_size_in_bytes>>

\* A packet_len that starts from one length field instead of two.
PacketOneLengthField(f) ==
  LET video_frame_bytes == EncodeFrame(f)
      image_data_bytes == IF f.image_data.some THEN f.image_data.bytes ELSE <<>>
      packet_len == U64_LEN + Len(video_frame_bytes) + Len(image_data_bytes)
  IN ToBeBytes(packet_len) \o ToBeBytes(Len(video_frame_bytes))
       \o video_frame_bytes \o image_data_bytes

\* One loop iteration's writes: [ packet_len | video_frame_len | video_frame | image_data ]
Packet(f) ==
  LET video_frame_bytes == EncodeFrame(f)
      image_data_bytes == IF f.image_data.some THEN f.image_data.bytes ELSE <<>>
      packet_len == U64_LEN + U64_LEN + Len(video_frame_bytes) + Len(image_data_bytes)
  IN ToBeBytes(packet_len) \o ToBeBytes(Len(video_frame_bytes))
       \o video_frame_bytes \o image_data_bytes

NoFrame == VideoFrame("Missing", None, 0, 0)

\* A Compressor that was never constructed.
NoCompressor ==
  /\ sender = FALSE
  /\ channel = <<>>
  /\ threads = <<>>
  /\ held = <<>>
  /\ files = <<>>
  /\ fin_pc = "idle"
  /\ joined = 0
  /\ accepted = <<>>

\* Compressor::new with num_workers threads, each with its own shard file.
InitCompressor(num_workers) ==
  /\ sender = TRUE
  /\ channel = <<>>
  /\ threads = [w \in 1..num_workers |-> "recv"]
  /\ held = [w \in 1..num_workers |-> NoFrame]
  /\ files = [w \in 1..num_workers |-> <<>>]
  /\ fin_pc = "idle"
  /\ joined = 0
  /\ accepted = <<>>

\* Compressor::compress_to_disk on an unbounded channel.
CompressToDisk(f) ==
  /\ sender /\ fin_pc = "idle"
  /\ channel' = Append(channel, f)
  /\ accepted' = Append(accepted, f)
  /\ UNCHANGED <<sender, threads, held, files, fin_pc, joined>>

\* receiver.recv() returning a record.
WorkerRecv(w) ==
  /\ threads[w] = "recv"
  /\ channel # <<>>
  /\ held' = [held EXCEPT ![w] = Head(channel)]
  /\ channel' = Tail(channel)
  /\ threads' = [threads EXCEPT ![w] = "write"]
  /\ UNCHANGED <<sender, files, fin_pc, joined, accepted>>

\* A writer that puts each packet in front of what the shard holds.
WriteShardAtStart(shard, f) == Packet(f) \o shard

\* The shard of worker w after it wrote the packet of f.
WriteShard(shard, f) == shard \o Packet(f)

\* The four write_all calls, then the record goes out of scope (Drop).
WorkerWrite(w) ==
  /\ threads[w] = "write"
  /\ files' = [files EXCEPT ![w] = WriteShard(@, held[w])]
  /\ buffer_size_in_bytes' = buffer_size_in_bytes - DropAmount(held[w])
  /\ ledger' = IF held[w].image_data.some
               THEN LedgerSub(ledger, held[w].frame_number) ELSE ledger
  /\ held' = [held EXCEPT ![w] = NoFrame]
  /\ threads' = [threads EXCEPT ![w] = "recv"]
  /\ UNCHANGED <<sender, channel, fin_pc, joined, accepted>>

\* receiver.recv() fails: the channel is empty and disconnected; the thread ends
\* and its writer is dropped, which flushes the shard.
WorkerExit(w) ==
  /\ threads[w] = "recv"
  /\ channel = <<>> /\ ~sender
  /\ threads' = [threads EXCEPT ![w] = "exited"]
  /\ UNCHANGED <<sender, channel, held, files, fin_pc, joined, accepted>>

\* Compressor::finish is called with the sender still there.
FinishCall ==
  /\ fin_pc = "idle" /\ sender
  /\ fin_pc' = "waiting"
  /\ UNCHANGED <<sender, channel, threads, held, files, joined, accepted>>

\* The wait loop of finish sees sender.len() == 0; the sender is taken and dropped.
ChannelDrained(ch) == Len(ch) = 0

FinishDisconnect ==
  /\ fin_pc = "waiting"
  /\ ChannelDrained(channel)
  /\ sender' = FALSE
  /\ fin_pc' = "joining"
  /\ UNCHANGED <<channel, threads, held, files, joined, accepted>>

\* A finish that does not wait for the thread.
ThreadDetached(pc) == TRUE

\* thread.join() returns for the next handle of self.threads.drain(..).
ThreadJoinable(pc) == pc = "exited"

FinishJoin ==
  /\ fin_pc = "joining"
  /\ joined < Len(threads)
  /\ ThreadJoinable(threads[joined + 1])
  /\ joined' = joined + 1
  /\ fin_pc' = IF joined + 1 = Len(threads) THEN "done" ELSE "joining"
  /\ UNCHANGED <<sender, channel, threads, held, files, accepted>>


(***************************************************************************)
(* Decompressor (decompressor.rs).                                         *)
(***************************************************************************)
\* let mut expected_frame = 1;
ExpectedFrameStart == 1

StatusOfCode(c) ==
  CASE c = 0 -> "Captured" [] c = 1 -> "Dropped" [] OTHER -> "Missing"

\* bincode::decode_from_slice(&video_frame_bytes): ImageData decodes to Bytes(vec![]).
Decodable(meta) == Len(meta) >= 4 /\ meta[1] \in 0..2 /\ meta[2] \in 0..1

DecodeFrame(meta) ==
  VideoFrame(StatusOfCode(meta[1]), IF meta[2] = 1 THEN Some(<<>>) ELSE None,
             meta[3], meta[4])

\* A reader that takes packet_len to count one length field only.
RemainderLenOneField(packet_len, video_frame_len) == packet_len - U64_LEN - video_frame_len

\* let remainder_len = packet_len - U64_LEN - U64_LEN - video_frame_len;
RemainderLen(packet_len, video_frame_len) == packet_len - U64_LEN - U64_LEN - video_frame_len

\* One iteration of the reader thread's loop on a shard of which pos bytes are
\* consumed: the record it sends, or the end of the thread (a failed read_exact, an
\* undecodable record).
ReadPacket(stream, pos) ==
  LET avail == Len(stream) - pos
      stop == [kind |-> "end", frame |-> NoFrame, next |-> pos]
  IN IF avail < U64_LEN + U64_LEN THEN stop
     ELSE LET packet_len == FromBeBytes(SubSeq(stream, pos + 1, pos + U64_LEN))
              video_frame_len ==
                FromBeBytes(SubSeq(stream, pos + U64_LEN + 1, pos + 2 * U64_LEN))
              body == pos + 2 * U64_LEN
          IN IF avail < 2 * U64_LEN + video_frame_len THEN stop
             ELSE LET meta == SubSeq(stream, body + 1, body + video_frame_len)
                  IN IF ~Decodable(meta) THEN stop
                     ELSE LET f == DecodeFrame(meta)
                              remainder_len == RemainderLen(packet_len, video_frame_len)
                              from == body + video_frame_len
                          IN IF ~f.image_data.some
                             THEN [kind |-> "frame", frame |-> f, next |-> from]
                             ELSE IF remainder_len < 0
                                     \/ Len(stream) - from < remainder_len
                             THEN stop
                             ELSE [kind |-> "frame",
                                   frame |-> [f EXCEPT !.image_data =
                                     Some(SubSeq(stream, from + 1, from + remainder_len))],
                                   next |-> from + remainder_len]

\* The per_thread_function of a caller: here, the payload it was shown.
PerThreadFunction(f) == f.image_data.bytes

\* The shard files found for the session, by file name.
RECURSIVE ShardsOnDisk(_, _)
ShardsOnDisk(present, w) ==
  IF w > Len(present) THEN <<>>
  ELSE (IF present[w] THEN <<w>> ELSE <<>>) \o ShardsOnDisk(present, w + 1)

\* A drain_filter pass over no worker goes straight to the heap.
EnterRound(ws) == IF ws = <<>> THEN "pop" ELSE "pull"

\* No decompression has started; every shard file written is in the directory.
NoDecompressor ==
  /\ on_disk = [w \in DOMAIN files |-> TRUE]
  /\ dec_pc = "idle"
  /\ workers = <<>>
  /\ drain_i = 1
  /\ rd_pos = [w \in DOMAIN files |-> 0]
  /\ min_heap = {}
  /\ expected_frame = ExpectedFrameStart
  /\ advanced_by_at_least_one_frame = FALSE
  /\ next_available_frame = 0
  /\ emitted = <<>>

\* decompress_from_disk for one session: a reader per shard file, then
\* order_frames_from_worker_threads up to its first recv.
StartDecompress ==
  /\ dec_pc = "idle"
  /\ \E w \in DOMAIN on_disk : on_disk[w]
  /\ workers' = ShardsOnDisk(on_disk, 1)
  /\ dec_pc' = "pull"
  /\ drain_i' = 1
  /\ min_heap' = {}
  /\ expected_frame' = ExpectedFrameStart
  /\ UNCHANGED <<on_disk, rd_pos, advanced_by_at_least_one_frame, next_available_frame,
                 emitted>>

\* A drain pass that keeps a worker whose channel is closed.
KeepAt(seq, i) == seq

\* drain_filter removes the worker the closure returned true for.
RemoveAt(seq, i) == SubSeq(seq, 1, i - 1) \o SubSeq(seq, i + 1, Len(seq))

\* A round robin pass: one record from each worker, with or without a payload.
StopPullingAlways(f) == TRUE

\* if has_image_data { return false; }: the pass moves on to the next worker.
StopPulling(f) == f.image_data.some

\* One worker.receiver.recv() inside the drain_filter closure.
DecPull ==
  /\ dec_pc = "pull"
  /\ \E w \in {workers[drain_i]} : \E r \in {ReadPacket(files[w], rd_pos[w])} :
        IF r.kind = "frame"
        THEN /\ min_heap' = min_heap \cup
                  {[frame |-> r.frame, t |-> PerThreadFunction(r.frame),
                    src |-> w, at |-> rd_pos[w]]}
             /\ rd_pos' = [rd_pos EXCEPT ![w] = r.next]
             /\ workers' = workers
             /\ IF StopPulling(r.frame)
                THEN IF drain_i = Len(workers)
                     THEN dec_pc' = "pop" /\ drain_i' = 1
                     ELSE dec_pc' = "pull" /\ drain_i' = drain_i + 1
                ELSE dec_pc' = "pull" /\ drain_i' = drain_i
        ELSE /\ workers' = RemoveAt(workers, drain_i)
             /\ rd_pos' = rd_pos
             /\ min_heap' = min_heap
             /\ IF drain_i = Len(workers)
                THEN dec_pc' = "pop" /\ drain_i' = 1
                ELSE dec_pc' = "pull" /\ drain_i' = drain_i
  /\ advanced_by_at_least_one_frame' = FALSE
  /\ UNCHANGED <<on_disk, expected_frame, next_available_frame, emitted>>

\* A BinaryHeap without cmp::Reverse: pop and peek return a largest entry.
MaxEntries(heap) ==
  {e \in heap : \A o \in heap : e.frame.frame_number >= o.frame.frame_number}

\* The entries min_heap.pop() may return: the heap is keyed by frame_number alone.
MinEntries(heap) ==
  {e \in heap : \A o \in heap : e.frame.frame_number <= o.frame.frame_number}

\* A test that lets a record through when frames before it are outstanding.
IsExpectedOrLater(n, expected) == n >= expected

\* if min_frame.0.frame_number == expected_frame
IsExpected(n, expected) == n = expected

\* in_order_function(video_frame, result, timestamp)
Emission(f, result) == [frame |-> f, result |-> result, timestamp |-> dec_timestamp]

\* What follows a break out of the pop loop: the next round, or the gap fill with
\* its min_heap.peek().unwrap().  A round over no worker receives nothing and
\* starts its pop loop with advanced_by_at_least_one_frame = false.
LeavePopLoop ==
  IF advanced_by_at_least_one_frame
  THEN /\ dec_pc' = EnterRound(workers)
       /\ next_available_frame' = next_available_frame
       /\ advanced_by_at_least_one_frame' = (workers # <<>>)
  ELSE IF min_heap = {}
  THEN /\ dec_pc' = "panicked"
       /\ next_available_frame' = next_available_frame
       /\ UNCHANGED advanced_by_at_least_one_frame
  ELSE /\ dec_pc' = "gap"
       /\ next_available_frame' =
            (CHOOSE e \in MinEntries(min_heap) : TRUE).frame.frame_number
       /\ UNCHANGED advanced_by_at_least_one_frame

\* One iteration of the inner loop that pops the heap.
DecPop ==
  /\ dec_pc = "pop"
  /\ IF min_heap = {}
     THEN /\ IF workers = <<>>
             THEN /\ dec_pc' = "done" /\ next_available_frame' = next_available_frame
                  /\ UNCHANGED advanced_by_at_least_one_frame
             ELSE LeavePopLoop
          /\ UNCHANGED <<min_heap, expected_frame, emitted>>
     ELSE \E e \in MinEntries(min_heap) :
            IF IsExpected(e.frame.frame_number, expected_frame)
            THEN /\ emitted' = Append(emitted, Emission(e.frame, [ok |-> TRUE, t |-> e.t]))
                 /\ min_heap' = min_heap \ {e}
                 /\ expected_frame' = expected_frame + 1
                 /\ advanced_by_at_least_one_frame' = TRUE
                 /\ UNCHANGED <<dec_pc, next_available_frame>>
            ELSE /\ LeavePopLoop
                 /\ UNCHANGED <<min_heap, expected_frame, emitted>>
  /\ UNCHANGED <<on_disk, workers, drain_i, rd_pos>>

\* The record the gap fill passes to in_order_function.
MissingFrame(n) == VideoFrame("Missing", None, n, 0)

\* A gap fill that passes on one Missing record and goes back to the readers.
GapFilledAtOnce(expected, next_available) == TRUE

\* The loop ends when expected_frame reaches next_available_frame.
GapFilled(expected, next_available) == expected = next_available

\* Missing records in_order_function may be passed before the model stops the
\* gap fill (it has no bound of its own when next_available_frame is behind).
MaxEmitted == MaxFrameNo + MaxRecords + 2

\* One iteration of the loop that passes Missing records on.
DecGap ==
  /\ dec_pc = "gap"
  /\ Len(emitted) < MaxEmitted
  /\ emitted' = Append(emitted,
       Emission(MissingFrame(expected_frame), [ok |-> FALSE, t |-> <<>>]))
  /\ expected_frame' = expected_frame + 1
  /\ dec_pc' = IF GapFilled(expected_frame + 1, next_available_frame)
               THEN EnterRound(workers) ELSE "gap"
  /\ UNCHANGED <<on_disk, workers, drain_i, rd_pos, min_heap,
                 advanced_by_at_least_one_frame, next_available_frame>>

(***************************************************************************)
(* The capture stage with consumers that release the records they got.     *)
(***************************************************************************)
InitCapture == InitRecorder /\ NoCompressor /\ NoDecompressor /\ NoExtras

NextCapture ==
  \/ \E size \in 1..MaxFrameSize : CaptureAdd(size) /\ UNCHANGED <<compVars, decVars, extVars>>
  \/ CaptureDecide /\ UNCHANGED <<compVars, decVars, extVars>>
  \/ FinishFrameHold /\ UNCHANGED <<compVars, decVars, extVars>>
  \/ \E i \in 1..MaxCaptures : MapComplete(i) /\ UNCHANGED <<compVars, decVars, extVars>>
  \/ \E i \in 1..MaxCaptures : MapFail(i) /\ UNCHANGED <<compVars, decVars, extVars>>
  \/ \E f \in live : Release(f) /\ UNCHANGED <<compVars, decVars, extVars>>
  \/ StopRecording /\ UNCHANGED <<compVars, decVars, extVars>>

Spec == InitCapture /\ [][NextCapture]_vars

\* The capture stage when no map request fails, finish_frame keeps being called
\* while the recorder is installed, the render thread finishes the capture it is
\* in, and every map callback eventually runs.
NextCaptureLive ==
  \/ \E size \in 1..MaxFrameSize : CaptureAdd(size) /\ UNCHANGED <<compVars, decVars, extVars>>
  \/ CaptureDecide /\ UNCHANGED <<compVars, decVars, extVars>>
  \/ FinishFrameHold /\ UNCHANGED <<compVars, decVars, extVars>>
  \/ \E i \in 1..MaxCaptures : MapComplete(i) /\ UNCHANGED <<compVars, decVars, extVars>>
  \/ \E f \in live : Release(f) /\ UNCHANGED <<compVars, decVars, extVars>>
  \/ StopRecording /\ UNCHANGED <<compVars, decVars, extVars>>

SpecCaptureLive ==
  /\ InitCapture
  /\ [][NextCaptureLive]_vars
  /\ WF_vars(FinishFrameHold /\ UNCHANGED <<compVars, decVars, extVars>>)
  /\ WF_vars(CaptureDecide /\ UNCHANGED <<compVars, decVars, extVars>>)
  /\ \A i \in 1..MaxCaptures :
       WF_vars(MapComplete(i) /\ UNCHANGED <<compVars, decVars, extVars>>)

(***************************************************************************)
(* A round trip: records sent to a Compressor, finish, possibly the loss   *)
(* of one shard file, then the Decompressor on what is in the directory.   *)
(***************************************************************************)
InitRoundTrip ==
  /\ NoRecorder
  /\ \E num_workers \in 1..MaxWorkers : InitCompressor(num_workers)
  /\ NoDecompressor
  /\ NoExtras

\* The size of frame n of a session whose viewport changes from frame to frame.
ViewportSize(n) == 1 + (n % MaxFrameSize)

\* The caller hands the next record of a session to compress_to_disk, Captured
\* with its mapped payload or Dropped with none, as the recorder creates them.
SendRecord(status) ==
  /\ Len(accepted) < MaxRecords
  /\ LET n == Len(accepted) + 1
         size == ViewportSize(n)
         f == VideoFrame(status,
                IF status = "Captured" THEN Some(Pixels(n, size)) ELSE None, n, size)
     IN /\ CompressToDisk(f)
        /\ buffer_size_in_bytes' = buffer_size_in_bytes + DropAmount(f)
        /\ ledger' = IF status = "Captured" THEN LedgerAdd(ledger, n)
                     ELSE LedgerSub(LedgerAdd(ledger, n), n)
  /\ UNCHANGED <<capRest, decVars, extVars>>

\* One shard file of the finished session is removed before decompression.
DeleteShard(w) ==
  /\ fin_pc = "done" /\ dec_pc = "idle"
  /\ \A v \in DOMAIN on_disk : on_disk[v]
  /\ on_disk' = [on_disk EXCEPT ![w] = FALSE]
  /\ UNCHANGED <<dec_pc, workers, drain_i, rd_pos, min_heap, expected_frame,
                 advanced_by_at_least_one_frame, next_available_frame, emitted>>

NextRoundTrip ==
  \/ \E status \in {"Captured", "Dropped"} : SendRecord(status)
  \/ \E w \in DOMAIN threads : WorkerRecv(w) /\ UNCHANGED <<capVars, decVars, extVars>>
  \/ \E w \in DOMAIN threads : WorkerWrite(w) /\ UNCHANGED <<capRest, decVars, extVars>>
  \/ \E w \in DOMAIN threads : WorkerExit(w) /\ UNCHANGED <<capVars, decVars, extVars>>
  \/ FinishCall /\ UNCHANGED <<capVars, decVars, extVars>>
  \/ FinishDisconnect /\ UNCHANGED <<capVars, decVars, extVars>>
  \/ FinishJoin /\ UNCHANGED <<capVars, decVars, extVars>>
  \/ \E w \in DOMAIN files : DeleteShard(w) /\ UNCHANGED <<capVars, compVars, extVars>>
  \/ fin_pc = "done" /\ StartDecompress /\ UNCHANGED <<capVars, compVars, extVars>>
  \/ DecPull /\ UNCHANGED <<capVars, compVars, extVars>>
  \/ DecPop /\ UNCHANGED <<capVars, compVars, extVars>>
  \/ DecGap /\ UNCHANGED <<capVars, compVars, extVars>>

SpecRoundTrip == InitRoundTrip /\ [][NextRoundTrip]_vars

(***************************************************************************)
(* The Decompressor on shard files with arbitrary records: each shard      *)
(* increasing, no frame number in two places.                              *)
(***************************************************************************)
\* The records of shard w: the frame numbers place[n] = w in increasing order.
RECURSIVE ShardOf(_, _, _, _)
ShardOf(place, kind, w, n) ==
  IF n > MaxFrameNo THEN <<>>
  ELSE (IF place[n] = w
        THEN Packet(VideoFrame(kind[n],
               IF kind[n] = "Captured" THEN Some(Pixels(n, 1)) ELSE None, n, 1))
        ELSE <<>>) \o ShardOf(place, kind, w, n + 1)

InitShards ==
  /\ NoRecorder
  /\ \E num_shards \in 1..MaxShards :
     \E place \in [0..MaxFrameNo -> 0..num_shards] :
     \E kind \in [0..MaxFrameNo -> {"Captured", "Dropped"}] :
       /\ \A n \in 0..MaxFrameNo : place[n] = 0 => kind[n] = "Dropped"
       /\ files = [w \in 1..num_shards |-> ShardOf(place, kind, w, 0)]
       /\ threads = [w \in 1..num_shards |-> "exited"]
       /\ held = [w \in 1..num_shards |-> NoFrame]
       /\ joined = num_shards
  /\ sender = FALSE
  /\ channel = <<>>
  /\ fin_pc = "done"
  /\ accepted = <<>>
  /\ NoDecompressor
  /\ NoExtras

NextShards ==
  \/ StartDecompress /\ UNCHANGED <<capVars, compVars, extVars>>
  \/ DecPull /\ UNCHANGED <<capVars, compVars, extVars>>
  \/ DecPop /\ UNCHANGED <<capVars, compVars, extVars>>
  \/ DecGap /\ UNCHANGED <<capVars, compVars, extVars>>

SpecShards == InitShards /\ [][NextShards]_vars

(***************************************************************************)
(* The whole pipeline as examples/quads_render_thread.rs wires it: the     *)
(* capture callback hands every record to a Compressor it owns, and the    *)
(* Decompressor runs on the shards of the finished session.                *)
(***************************************************************************)
InitPipeline ==
  /\ InitRecorder
  /\ \E num_workers \in 1..MaxWorkers : InitCompressor(num_workers)
  /\ NoDecompressor
  /\ NoExtras

\* Box::new(move |video_frame| compressor.compress_to_disk(video_frame)), called
\* for each record process_mapped_buffers passes on.
CompressEach(out) ==
  /\ out # <<>> => sender /\ fin_pc = "idle"
  /\ channel' = channel \o out
  /\ accepted' = accepted \o out
  /\ UNCHANGED <<sender, threads, held, files, fin_pc, joined>>
  /\ UNCHANGED <<live, buffer_size_in_bytes, ledger>>

\* finish_frame of a recorder whose process_function is that closure.
FinishFrameCompress == FinishFrame /\ CompressEach(Tick.out)

NextPipeline ==
  \/ CaptureAdd(ViewportSize(frame_number + 1)) /\ UNCHANGED <<compVars, decVars, extVars>>
  \/ CaptureDecide /\ UNCHANGED <<compVars, decVars, extVars>>
  \/ FinishFrameCompress /\ UNCHANGED <<decVars, extVars>>
  \/ \E i \in 1..MaxCaptures : MapComplete(i) /\ UNCHANGED <<compVars, decVars, extVars>>
  \/ StopRecording /\ UNCHANGED <<compVars, decVars, extVars>>
  \/ \E w \in DOMAIN threads : WorkerRecv(w) /\ UNCHANGED <<capVars, decVars, extVars>>
  \/ \E w \in DOMAIN threads : WorkerWrite(w) /\ UNCHANGED <<capRest, decVars, extVars>>
  \/ \E w \in DOMAIN threads : WorkerExit(w) /\ UNCHANGED <<capVars, decVars, extVars>>
  \/ ~recorder /\ FinishCall /\ UNCHANGED <<capVars, decVars, extVars>>
  \/ FinishDisconnect /\ UNCHANGED <<capVars, decVars, extVars>>
  \/ FinishJoin /\ UNCHANGED <<capVars, decVars, extVars>>
  \/ \E w \in DOMAIN files : DeleteShard(w) /\ UNCHANGED <<capVars, compVars, extVars>>
  \/ fin_pc = "done" /\ StartDecompress /\ UNCHANGED <<capVars, compVars, extVars>>
  \/ DecPull /\ UNCHANGED <<capVars, compVars, extVars>>
  \/ DecPop /\ UNCHANGED <<capVars, compVars, extVars>>
  \/ DecGap /\ UNCHANGED <<capVars, compVars, extVars>>

SpecPipeline == InitPipeline /\ [][NextPipeline]_vars

(***************************************************************************)
(* decompress_from_disk on a directory that holds the shards of several    *)
(* sessions.                                                               *)
(***************************************************************************)
\* Shard files in the directory.
MaxFiles == 3
\* Frames of one session.
MaxGroupFrames == 2

\* File w is "{timestamp}--{i}.sz" of the session it was written in.
SessionOfFile(w, num_sessions) == 1 + ((w - 1) % num_sessions)

\* Frames of a session alternate between Captured and Dropped.
SessionKind == [n \in 0..MaxFrameNo |-> IF n % 2 = 1 THEN "Captured" ELSE "Dropped"]

\* The directory: each frame 1..MaxGroupFrames of each session is in one shard of
\* that session or in none; a shard that got no record is a zero-length file.
InitSessions ==
  /\ NoRecorder
  /\ \E num_sessions \in 1..MaxSessions :
     \E place \in [1..num_sessions -> [1..MaxGroupFrames -> 0..MaxFiles]] :
       /\ file_timestamp = [w \in 1..MaxFiles |-> SessionOfFile(w, num_sessions)]
       /\ \A t \in 1..num_sessions : \A n \in 1..MaxGroupFrames :
            place[t][n] # 0 => SessionOfFile(place[t][n], num_sessions) = t
       /\ files = [w \in 1..MaxFiles |->
            ShardOf([n \in 0..MaxFrameNo |->
                       IF n \in 1..MaxGroupFrames
                       THEN place[SessionOfFile(w, num_sessions)][n] ELSE 0],
                    SessionKind, w, 1)]
  /\ threads = [w \in 1..MaxFiles |-> "exited"]
  /\ held = [w \in 1..MaxFiles |-> NoFrame]
  /\ joined = MaxFiles
  /\ sender = FALSE
  /\ channel = <<>>
  /\ fin_pc = "done"
  /\ accepted = <<>>
  /\ NoDecompressor
  /\ NoFfmpegPipe
  /\ remove_files_after_decompression \in BOOLEAN
  /\ scanned = {}
  /\ dec_timestamp = 0
  /\ NoDamage
  /\ NoRecording
  /\ Unbounded
  /\ NoRenderThread /\ NoReaders /\ NoMapRequests /\ NoCaptureStream /\ NoCallsAfterFinish

\* scan_directory_for_timestamps: the files in the directory that are not of
\* length zero, keyed by the timestamp in their name.
ScanDirectory ==
  /\ dec_pc = "idle"
  /\ scanned' = {w \in DOMAIN files : on_disk[w] /\ Len(files[w]) > 0}
  /\ dec_pc' = "scanned"
  /\ UNCHANGED <<on_disk, workers, drain_i, rd_pos, min_heap, expected_frame,
                 advanced_by_at_least_one_frame, next_available_frame, emitted>>
  /\ UNCHANGED <<file_timestamp, remove_files_after_decompression, dec_timestamp>>

\* A scan that puts every file under every key.
InAnyGroup(w, timestamp) == TRUE

\* map.entry(timestamp).or_insert_with(|| vec![]).push(filename)
InGroup(w, timestamp) == file_timestamp[w] = timestamp

\* The keys of the BTreeMap the for loop has not come to.
TimestampsLeft == {file_timestamp[w] : w \in scanned} \ (0..dec_timestamp)

\* The next iteration of the for loop: spawn_worker for each file of the next
\* timestamp in file name order, then order_frames_from_worker_threads up to its
\* first recv.
StartGroup ==
  /\ dec_pc \in {"scanned", "done"}
  /\ TimestampsLeft # {}
  /\ LET timestamp == CHOOSE t \in TimestampsLeft : \A u \in TimestampsLeft : t <= u
         filenames == [w \in DOMAIN files |-> w \in scanned /\ InGroup(w, timestamp)]
     IN /\ dec_timestamp' = timestamp
        /\ workers' = ShardsOnDisk(filenames, 1)
        /\ dec_pc' = EnterRound(ShardsOnDisk(filenames, 1))
        /\ rd_pos' = [w \in DOMAIN rd_pos |-> IF filenames[w] THEN 0 ELSE rd_pos[w]]
  /\ drain_i' = 1
  /\ min_heap' = {}
  /\ expected_frame' = ExpectedFrameStart
  /\ UNCHANGED <<on_disk, advanced_by_at_least_one_frame, next_available_frame, emitted>>
  /\ UNCHANGED <<file_timestamp, remove_files_after_decompression, scanned>>

\* A Decompressor that removes the files whatever its flag says.
RemoveAlways(flag) == TRUE

\* if self.remove_files_after_decompression
RemoveFiles(flag) == flag

\* The for loop is over: the files are removed if so configured, and
\* decompress_from_disk returns.
DecReturn ==
  /\ dec_pc \in {"scanned", "done"}
  /\ TimestampsLeft = {}
  /\ on_disk' = IF RemoveFiles(remove_files_after_decompression)
                THEN [w \in DOMAIN on_disk |-> on_disk[w] /\ w \notin scanned]
                ELSE on_disk
  /\ dec_pc' = "returned"
  /\ UNCHANGED <<workers, drain_i, rd_pos, min_heap, expected_frame,
                 advanced_by_at_least_one_frame, next_available_frame, emitted>>
  /\ UNCHANGED sessVars

\* A panic inside order_frames_from_worker_threads: in_order_function panics, or
\* per_thread_function does in a reader thread and join().unwrap() passes it on.
DecAbort ==
  /\ dec_pc \in {"pull", "pop", "gap"}
  /\ dec_pc' = "panicked"
  /\ UNCHANGED <<on_disk, workers, drain_i, rd_pos, min_heap, expected_frame,
                 advanced_by_at_least_one_frame, next_available_frame, emitted>>
  /\ UNCHANGED sessVars

NextSessions ==
  \/ ScanDirectory /\ UNCHANGED <<capVars, compVars, pipeVars, intact, recVars, boundVars, rtVars, rdrVars, mapVars, strVars, finVars>>
  \/ StartGroup /\ UNCHANGED <<capVars, compVars, pipeVars, intact, recVars, boundVars, rtVars, rdrVars, mapVars, strVars, finVars>>
  \/ DecPull /\ UNCHANGED <<capVars, compVars, extVars>>
  \/ DecPop /\ UNCHANGED <<capVars, compVars, extVars>>
  \/ DecGap /\ UNCHANGED <<capVars, compVars, extVars>>
  \/ DecReturn /\ UNCHANGED <<capVars, compVars, pipeVars, intact, recVars, boundVars, rtVars, rdrVars, mapVars, strVars, finVars>>
  \/ DecAbort /\ UNCHANGED <<capVars, compVars, pipeVars, intact, recVars, boundVars, rtVars, rdrVars, mapVars, strVars, finVars>>

SpecSessions == InitSessions /\ [][NextSessions]_vars

(***************************************************************************)
(* The Decompressor on a session one of whose shard files was damaged      *)
(* after it was written.                                                   *)
(***************************************************************************)
\* The two shards hold the frames 1..MaxFrameNo of a session between them.
InitDamaged ==
  /\ NoRecorder
  /\ \E place \in [0..MaxFrameNo -> 0..MaxShards] :
       /\ \A n \in 0..MaxFrameNo : place[n] = 0 <=> n = 0
       /\ files = [w \in 1..MaxShards |-> ShardOf(place, SessionKind, w, 1)]
  /\ threads = [w \in 1..MaxShards |-> "exited"]
  /\ held = [w \in 1..MaxShards |-> NoFrame]
  /\ joined = MaxShards
  /\ sender = FALSE
  /\ channel = <<>>
  /\ fin_pc = "done"
  /\ accepted = <<>>
  /\ NoDecompressor
  /\ NoExtras

\* The offsets at which the reader thread of a shard begins a packet.
RECURSIVE PacketStarts(_, _)
PacketStarts(stream, pos) ==
  LET r == ReadPacket(stream, pos)
  IN IF r.kind = "frame" THEN {pos} \cup PacketStarts(stream, r.next) ELSE {}

\* Shard w loses its end: read_exact will fail inside a length prefix, the
\* metadata or the payload, or at a packet boundary.
Truncate(w, len) ==
  /\ dec_pc = "idle" /\ files = intact
  /\ len < Len(files[w])
  /\ files' = [files EXCEPT ![w] = SubSeq(@, 1, len)]
  /\ UNCHANGED <<sender, channel, threads, held, fin_pc, joined, accepted>>

\* The metadata block of the packet at offset pos of shard w no longer decodes.
CorruptMetadata(w, pos) ==
  /\ dec_pc = "idle" /\ files = intact
  /\ pos \in PacketStarts(files[w], 0)
  /\ files' = [files EXCEPT ![w][pos + U64_LEN + U64_LEN + 1] = 255]
  /\ UNCHANGED <<sender, channel, threads, held, fin_pc, joined, accepted>>

NextDamaged ==
  \/ \E w \in DOMAIN files : \E len \in 0..Len(files[w]) :
       Truncate(w, len) /\ UNCHANGED <<capVars, decVars, extVars>>
  \/ \E w \in DOMAIN files : \E pos \in 0..Len(files[w]) :
       CorruptMetadata(w, pos) /\ UNCHANGED <<capVars, decVars, extVars>>
  \/ StartDecompress /\ UNCHANGED <<capVars, compVars, extVars>>
  \/ DecPull /\ UNCHANGED <<capVars, compVars, extVars>>
  \/ DecPop /\ UNCHANGED <<capVars, compVars, extVars>>
  \/ DecGap /\ UNCHANGED <<capVars, compVars, extVars>>

SpecDamaged == InitDamaged /\ [][NextDamaged]_vars

(***************************************************************************)
(* Renderer::start_recording and stop_recording (renderer.rs), with a      *)
(* callback that hands each record to a Compressor.                        *)
(***************************************************************************)
\* Calls of start_recording and stop_recording in one run.
MaxCalls == 3
\* Frames captured in one span.
MaxSpanFrames == 1

\* The slices of pipelines a caller may list: none, the first, the first two, ...
PipelineLists == {[i \in 1..n |-> i] : n \in 0..MaxPipelines}

\* A loop that treats every pipeline but the last one listed as inside a recording.
SetStreamPositionOfLast(positions, pipelines, last, others) ==
  [p \in DOMAIN positions |->
     IF \E i \in 1..Len(pipelines) : pipelines[i] = p
     THEN (IF pipelines[Len(pipelines)] = p THEN last ELSE "NotLast")
     ELSE positions[p]]

\* for pipeline in pipelines { pipeline.set_stream_position(&self.device, position) }
\* with the position of the last one listed and of the others.
SetStreamPosition(positions, pipelines, last, others) ==
  [p \in DOMAIN positions |->
     IF \E i \in 1..Len(pipelines) : pipelines[i] = p
     THEN (IF pipelines[Len(pipelines)] = p THEN last ELSE others)
     ELSE positions[p]]

\* start_recording calls so far: the span the recorder belongs to.
Span == Cardinality({i \in 1..Len(api_calls) : api_calls[i].op = "start"})

\* Renderer::start_recording: a new VideoRecorder replaces the one installed, if
\* any, which is dropped with its queues. The callback shares the Compressor of
\* the call before (now = 0), or owns one built for this call, whose timestamp is
\* the clock read by generate_timestamp: the millisecond of the last reading or a
\* later one.
StartRecording(pipelines, now) ==
  /\ ~panicked /\ cap_pc = "idle"
  /\ Len(api_calls) < MaxCalls
  /\ IF now = 0 THEN compressor_timestamp # 0 ELSE now \in {clock, clock + 1}
  /\ recorder' = TRUE
  /\ max_buffer_size_in_bytes' = MaxBudget
  /\ buffer_size_in_bytes' = 0
  /\ ledger' = LedgerSubAll(ledger, video_frames)
  /\ video_frames' = <<>>
  /\ frame_states' = <<>>
  /\ frame_number' = 0
  /\ UNCHANGED <<cap_pc, cap_local, panicked, live, created, delivered, blocked_ready>>
  /\ position_in_recording' =
       SetStreamPosition(position_in_recording, pipelines, "Last", "NotLast")
  /\ compressor_timestamp' = IF now = 0 THEN compressor_timestamp ELSE now
  /\ clock' = IF now = 0 THEN clock ELSE now
  /\ api_calls' = Append(api_calls, [op |-> "start", pipelines |-> pipelines])
  /\ UNCHANGED landed

\* Renderer::stop_recording, with or without a recorder installed.
StopRecordingCall(pipelines) ==
  /\ ~panicked /\ cap_pc = "idle"
  /\ Len(api_calls) < MaxCalls
  /\ IF recorder THEN StopRecording ELSE UNCHANGED capVars
  /\ position_in_recording' =
       SetStreamPosition(position_in_recording, pipelines, "None", "None")
  /\ api_calls' = Append(api_calls, [op |-> "stop", pipelines |-> pipelines])
  /\ UNCHANGED <<clock, compressor_timestamp, landed>>

\* The shard a record is written to carries the timestamp of the Compressor it
\* was handed to ("{timestamp}--{i}.sz").
Landing(out) ==
  [k \in 1..Len(out) |->
     [timestamp |-> compressor_timestamp, span |-> Span,
      frame_number |-> out[k].frame_number]]

\* finish_frame of a recorder whose callback is compressor.compress_to_disk; the
\* worker thread drops each record after writing it.
FinishFrameLand ==
  /\ FinishFrame
  /\ landed' = landed \o Landing(Tick.out)
  /\ buffer_size_in_bytes' = buffer_size_in_bytes - SumDrop(Tick.out)
  /\ ledger' = LedgerSubAll(ledger, Tick.out)
  /\ UNCHANGED <<live, position_in_recording, clock, compressor_timestamp, api_calls>>

restVars == <<compVars, decVars, pipeVars, sessVars, intact, boundVars, rtVars, rdrVars, mapVars, strVars, finVars>>

InitRecording ==
  NoRecorder /\ NoCompressor /\ NoDecompressor /\ NoExtras

NextRecording ==
  \/ \E now \in 0..(MaxCalls + 1) :
       StartRecording([p \in 1..MaxPipelines |-> p], now) /\ UNCHANGED restVars
  \/ \E pipelines \in PipelineLists : StopRecordingCall(pipelines) /\ UNCHANGED restVars
  \/ /\ frame_number < MaxSpanFrames
     /\ CaptureAdd(ViewportSize(frame_number + 1))
     /\ UNCHANGED <<restVars, recVars>>
  \/ CaptureDecide /\ UNCHANGED <<restVars, recVars>>
  \/ \E i \in 1..MaxCaptures : MapComplete(i) /\ UNCHANGED <<restVars, recVars>>
  \/ FinishFrameLand /\ UNCHANGED restVars

SpecRecording == InitRecording /\ [][NextRecording]_vars

(***************************************************************************)
(* A Compressor whose channel is bounded: Compressor::new(directory,       *)
(* Some(k), ..).                                                           *)
(***************************************************************************)
\* The largest channel_capacity.
MaxDepth == 1

InitBounded ==
  /\ NoRecorder
  /\ \E num_workers \in 1..MaxWorkers : InitCompressor(num_workers)
  /\ NoDecompressor
  /\ NoFfmpegPipe /\ NoSessions /\ NoDamage /\ NoRecording
  /\ NoRenderThread /\ NoReaders /\ NoMapRequests /\ NoCaptureStream /\ NoCallsAfterFinish
  /\ max_frames_queued \in {Some(k) : k \in 0..MaxDepth}
  /\ pending = <<>>

\* A channel that takes every record at once.
RoomAlways(capacity) == TRUE

\* crossbeam_channel::bounded(capacity): send goes through when the queue holds
\* fewer than capacity records; with capacity 0, when a receiver is waiting in recv.
Room(capacity) ==
  IF capacity = 0
  THEN channel = <<>> /\ \E w \in DOMAIN threads : threads[w] = "recv"
  ELSE Len(channel) < capacity

\* sender.send(video_frame) goes through: the record is in the channel, or with
\* capacity 0 in the hands of a worker thread whose recv it met.
Enqueue(f) ==
  IF max_frames_queued.bytes = 0
  THEN /\ \E w \in DOMAIN threads :
            /\ threads[w] = "recv"
            /\ held' = [held EXCEPT ![w] = f]
            /\ threads' = [threads EXCEPT ![w] = "write"]
       /\ channel' = channel
  ELSE /\ channel' = Append(channel, f)
       /\ UNCHANGED <<threads, held>>

\* compress_to_disk is called with the next record of the session: send goes
\* through at once, or the calling thread blocks in it.
CompressToDiskBounded ==
  /\ sender /\ fin_pc = "idle"
  /\ pending = <<>>
  /\ Len(accepted) < MaxRecords
  /\ LET n == Len(accepted) + 1
         size == ViewportSize(n)
         f == VideoFrame(SessionKind[n],
                IF SessionKind[n] = "Captured" THEN Some(Pixels(n, size)) ELSE None,
                n, size)
     IN /\ accepted' = Append(accepted, f)
        /\ IF Room(max_frames_queued.bytes)
           THEN Enqueue(f) /\ pending' = pending
           ELSE UNCHANGED <<channel, threads, held>> /\ pending' = <<f>>
        /\ buffer_size_in_bytes' = buffer_size_in_bytes + DropAmount(f)
        /\ ledger' = IF f.image_data.some THEN LedgerAdd(ledger, n) ELSE ledger
  /\ UNCHANGED <<sender, files, fin_pc, joined, max_frames_queued>>

\* The blocked send goes through and compress_to_disk returns.
SendCompletes ==
  /\ pending # <<>>
  /\ Room(max_frames_queued.bytes)
  /\ Enqueue(pending[1])
  /\ pending' = <<>>
  /\ UNCHANGED <<sender, files, fin_pc, joined, accepted, max_frames_queued>>

otherVars == <<decVars, pipeVars, sessVars, intact, recVars, rtVars, rdrVars, mapVars, strVars, finVars>>

NextBounded ==
  \/ CompressToDiskBounded /\ UNCHANGED <<capRest, otherVars>>
  \/ SendCompletes /\ UNCHANGED <<capVars, otherVars>>
  \/ \E w \in DOMAIN threads : WorkerRecv(w) /\ UNCHANGED <<capVars, otherVars, boundVars>>
  \/ \E w \in DOMAIN threads : WorkerWrite(w) /\ UNCHANGED <<capRest, otherVars, boundVars>>
  \/ \E w \in DOMAIN threads : WorkerExit(w) /\ UNCHANGED <<capVars, otherVars, boundVars>>
  \/ pending = <<>> /\ FinishCall /\ UNCHANGED <<capVars, otherVars, boundVars>>
  \/ FinishDisconnect /\ UNCHANGED <<capVars, otherVars, boundVars>>
  \/ FinishJoin /\ UNCHANGED <<capVars, otherVars, boundVars>>

\* The worker threads and the blocked sender are scheduled: a worker that can
\* receive or write does, and a send that can go through does.
SpecBounded ==
  /\ InitBounded
  /\ [][NextBounded]_vars
  /\ \A w \in 1..MaxWorkers :
       /\ WF_vars(/\ w \in DOMAIN threads
                  /\ WorkerRecv(w) /\ UNCHANGED <<capVars, otherVars, boundVars>>)
       /\ WF_vars(/\ w \in DOMAIN threads
                  /\ WorkerWrite(w) /\ UNCHANGED <<capRest, otherVars, boundVars>>)
  /\ WF_vars(SendCompletes /\ UNCHANGED <<capVars, otherVars>>)

(***************************************************************************)
(* FfmpegPipe (ffmpeg_pipe.rs): the encode sink.                           *)
(***************************************************************************)
\* The encoded images a caller passes: none, or one of two different ones.
PngBytes == {<<>>, <<97>>, <<98>>}

\* FfmpegPipe::new with or without an explicit output_filename.
InitFfmpegPipe ==
  /\ output_filename \in {None, Some(<<"recorded.mp4">>)}
  /\ child = 0
  /\ ffmpeg_timestamp = 0
  /\ prev_bytes = None
  /\ spawned = <<>>
  /\ writes = <<>>
  /\ calls = <<>>
  /\ sink_pc = "alive"
  /\ awaited = {}
  /\ exit_failed = {}

\* A sink that writes whatever it is given.
SkippedNever(png_bytes, prev) == FALSE

\* if png_bytes.is_empty() && self.prev_bytes.is_none() { return; }
Skipped(png_bytes, prev) == png_bytes = <<>> /\ ~prev.some

\* A sink that keeps its process whatever the timestamp.
TimestampNeverChanges(timestamp, stored) == FALSE

\* timestamp_has_changed: timestamp != self.timestamp.as_ref()
TimestampHasChanged(timestamp, stored) == timestamp # stored

\* output_filename_and_path: the explicit name, else the timestamp formatted
\* with milliseconds and ".mp4".
OutputFilename(name, timestamp) ==
  IF name.some THEN name.bytes ELSE <<"rfc3339", timestamp, ".mp4">>

\* A sink that passes on the bytes of the record as they are.
BytesAsGiven(png_bytes, prev) == png_bytes

\* The bytes of the one write_all: the duplicate of prev_bytes, or png_bytes.
BytesToWrite(png_bytes, prev) == IF png_bytes = <<>> THEN prev.bytes ELSE png_bytes

\* A re_spawn_process that starts the new encoder with an empty cache.
PrevBytesCleared(prev) == None

\* re_spawn_process sets timestamp and child; prev_bytes is as it was.
PrevBytesAfterReSpawn(prev) == prev

\* FfmpegPipe::write(video_frame, png_bytes, Some(timestamp)).
Write(png_bytes, timestamp) ==
  /\ sink_pc = "alive"
  /\ Len(calls) < MaxWrites
  /\ calls' = Append(calls, [bytes |-> png_bytes, timestamp |-> timestamp])
  /\ IF Skipped(png_bytes, prev_bytes)
     THEN UNCHANGED <<child, ffmpeg_timestamp, prev_bytes, spawned, writes>>
     ELSE LET re_spawn == child = 0 \/ TimestampHasChanged(timestamp, ffmpeg_timestamp)
              process == IF re_spawn THEN Len(spawned) + 1 ELSE child
              cached == IF re_spawn THEN PrevBytesAfterReSpawn(prev_bytes) ELSE prev_bytes
          IN /\ ffmpeg_timestamp' = IF re_spawn THEN timestamp ELSE ffmpeg_timestamp
             /\ spawned' =
                  IF re_spawn
                  THEN Append(spawned,
                         [timestamp |-> timestamp,
                          output |-> OutputFilename(output_filename, timestamp)])
                  ELSE spawned
             /\ child' = process
             /\ writes' = Append(writes,
                  [child |-> process, bytes |-> BytesToWrite(png_bytes, cached),
                   call |-> Len(calls) + 1])
             /\ prev_bytes' = IF png_bytes = <<>> THEN cached ELSE Some(png_bytes)
  /\ UNCHANGED <<output_filename, sink_pc, awaited, exit_failed>>

InitFfmpeg ==
  /\ NoRecorder /\ NoCompressor /\ NoDecompressor
  /\ InitFfmpegPipe /\ NoSessions /\ NoDamage /\ NoRecording /\ Unbounded
  /\ NoRenderThread /\ NoReaders /\ NoMapRequests /\ NoCaptureStream /\ NoCallsAfterFinish

NextFfmpeg ==
  \E png_bytes \in PngBytes : \E timestamp \in 1..MaxSessions :
    Write(png_bytes, timestamp) /\ UNCHANGED <<capVars, compVars, decVars, sessVars, intact, recVars, boundVars, rtVars, rdrVars, mapVars, strVars, finVars>>

SpecFfmpeg == InitFfmpeg /\ [][NextFfmpeg]_vars

(***************************************************************************)
(* Claims about the capture stage.                                         *)
(***************************************************************************)
RECURSIVE SumLive(_)
SumLive(S) ==
  IF S = {} THEN 0 ELSE LET f == CHOOSE x \in S : TRUE IN DropAmount(f) + SumLive(S \ {f})

Queued(n) == \E i \in 1..Len(video_frames) : video_frames[i].frame_number = n

Held(n) == Queued(n) \/ \E f \in live : f.frame_number = n

\* C4: the records passed to process_function carry frame_number 1, 2, 3, ... in
\* this order, and every record still queued is newer than every record delivered,
\* whatever the order in which the map callbacks ran.
C4_DeliveredInCaptureOrder ==
  /\ \A k \in 1..Len(delivered) : delivered[k].frame_number = k
  /\ \A i \in 1..Len(video_frames) : video_frames[i].frame_number = Len(delivered) + i

\* A frame tick left a mapped record queued behind a pending one, and both were
\* delivered later.
C4_Witness == blocked_ready /\ Len(delivered) >= 2 /\ video_frames = <<>> /\ recorder

\* C5 as stated: the counter never exceeds the budget by more than one frame's
\* size, and a frame whose addition takes the counter above the budget is Dropped.
C5_Original ==
  /\ buffer_size_in_bytes <= max_buffer_size_in_bytes + MaxFrameSize
  /\ \A i \in 1..Len(created) :
       (/\ created[i].prev_size <= max_buffer_size_in_bytes
        /\ created[i].prev_size + created[i].frame.frame_size_in_bytes
             > max_buffer_size_in_bytes)
       => created[i].frame.status = "Dropped"

\* C5 as amended: outside the add/revert window the counter exceeds the budget by
\* at most one frame's size, inside it by at most one more frame; a frame is
\* Dropped exactly when the counter read before its addition was already above the
\* budget, so the frame whose addition crosses the budget is Captured.
C5_BudgetOvershoot ==
  /\ cap_pc = "idle" =>
       buffer_size_in_bytes <= max_buffer_size_in_bytes + MaxFrameSize
  /\ cap_pc = "added" =>
       buffer_size_in_bytes
         <= max_buffer_size_in_bytes + MaxFrameSize + cap_local.frame_size_in_bytes
  /\ \A i \in 1..Len(created) :
       /\ created[i].frame.status = "Dropped"
            <=> created[i].prev_size > max_buffer_size_in_bytes
       /\ created[i].frame.status \in {"Captured", "Dropped"}

\* A frame crossed the budget and was Captured, the next one was Dropped, and the
\* counter rests above the budget.
C5_Witness ==
  /\ cap_pc = "idle"
  /\ buffer_size_in_bytes > max_buffer_size_in_bytes
  /\ \E i \in 1..Len(created) : \E j \in 1..Len(created) :
       /\ created[i].frame.status = "Captured"
       /\ created[i].prev_size + created[i].frame.frame_size_in_bytes
            > max_buffer_size_in_bytes
       /\ created[j].frame.status = "Dropped"

\* C6: with consumers dropping records while the render thread decides, every
\* record's size is added once and subtracted at most once (at the revert when
\* Dropped, at its release when Captured), the counter is never negative, equals
\* the sizes of the Captured records still held plus the addition in flight, and
\* is 0 once nothing is held.
C6_CounterAccounting ==
  /\ buffer_size_in_bytes >= 0
  /\ buffer_size_in_bytes =
       SumDrop(video_frames) + SumLive(live)
         + (IF cap_pc = "added" THEN cap_local.frame_size_in_bytes ELSE 0)
  /\ \A i \in 1..Len(created) :
       LET f == created[i].frame IN
       /\ ledger[f.frame_number].added = 1
       /\ ledger[f.frame_number].subtracted =
            (IF f.status = "Captured" /\ Held(f.frame_number) THEN 0 ELSE 1)
  /\ (video_frames = <<>> /\ live = {} /\ cap_pc = "idle") => buffer_size_in_bytes = 0

\* A consumer released a payload between the fetch_add and the revert of a frame
\* that is about to be Dropped.
C6_Witness ==
  /\ cap_pc = "added"
  /\ cap_local.prev_size > max_buffer_size_in_bytes
  /\ buffer_size_in_bytes < cap_local.prev_size + cap_local.frame_size_in_bytes

\* C7: the n-th record a recorder creates has frame_number n, Captured or Dropped,
\* and the first one carries the frame number reassembly starts at.
C7_FrameNumbers ==
  /\ \A i \in 1..Len(created) : created[i].frame.frame_number = i
  /\ frame_number = Len(created)
  /\ created # <<>> => created[1].frame.frame_number = ExpectedFrameStart

\* A Dropped record was followed by a Captured one.
C7_Witness ==
  \E i \in 1..Len(created) : \E j \in 1..Len(created) :
    i < j /\ created[i].frame.status = "Dropped" /\ created[j].frame.status = "Captured"

TimesDelivered(n) == Cardinality({k \in 1..Len(delivered) : delivered[k].frame_number = n})

OldestNotDropped == video_frames = <<>> \/ Head(video_frames).status # "Dropped"

\* C10: when every map request completes and finish_frame keeps being called,
\* every record capture created is eventually passed to the callback while the
\* recorder stays installed, never more than once; a Dropped record is passed on
\* without payload by the first frame tick that finds it oldest in the queue.
C10_EveryRecordDelivered ==
  /\ \A n \in 1..MaxCaptures :
       (Len(created) >= n) ~> (TimesDelivered(n) = 1 \/ ~recorder)
  /\ [](\A n \in 1..MaxCaptures : TimesDelivered(n) <= 1)
  /\ [](\A k \in 1..Len(delivered) :
          delivered[k].status = "Dropped" => ~delivered[k].image_data.some)
  /\ [][FinishFrameHold => OldestNotDropped']_vars

\* Every capture of the run was delivered, a Dropped one among them, after a tick
\* that had to hold a mapped record back.
C10_Witness ==
  /\ recorder /\ blocked_ready
  /\ Len(delivered) = MaxCaptures
  /\ \E k \in 1..Len(delivered) : delivered[k].status = "Dropped"

(***************************************************************************)
(* Claims about compression and reassembly.                                *)
(***************************************************************************)
\* The records a reader thread gets out of a shard, and where it stops.
RECURSIVE ShardRecords(_, _)
ShardRecords(stream, pos) ==
  LET r == ReadPacket(stream, pos)
  IN IF r.kind = "frame" THEN <<r.frame>> \o ShardRecords(stream, r.next) ELSE <<>>

RECURSIVE ShardEnd(_, _)
ShardEnd(stream, pos) ==
  LET r == ReadPacket(stream, pos)
  IN IF r.kind = "frame" THEN ShardEnd(stream, r.next) ELSE pos

Occurrences(seq, x) == Cardinality({i \in 1..Len(seq) : seq[i] = x})

\* How often f is a record of the shards 1..w.
RECURSIVE CopiesUpTo(_, _)
CopiesUpTo(f, w) ==
  IF w = 0 THEN 0
  ELSE Occurrences(ShardRecords(files[w], 0), f) + CopiesUpTo(f, w - 1)

CopiesInShards(f) == CopiesUpTo(f, Len(files))

CopiesInFlight(f) == Occurrences(channel, f) + Occurrences(held, f)

RECURSIVE RecordsUpTo(_)
RecordsUpTo(w) ==
  IF w = 0 THEN 0 ELSE Len(ShardRecords(files[w], 0)) + RecordsUpTo(w - 1)

RecordsInShards == RecordsUpTo(Len(files))

HeldRecords == Cardinality({w \in DOMAIN held : threads[w] = "write"})

NoShardLost == \A w \in DOMAIN on_disk : on_disk[w]

\* The k-th call of in_order_function passed the k-th record sent, unchanged.
SameAsSent(k) ==
  /\ emitted[k].frame = accepted[k]
  /\ emitted[k].result = [ok |-> TRUE, t |-> PerThreadFunction(accepted[k])]

\* C1: with every shard in place, the calls of in_order_function are the records
\* sent, in the order sent: frame_number 1..N, Captured with the same bytes,
\* Dropped without payload, no Missing record; all N of them once reassembly
\* returns. It never enters the gap fill nor unwraps an empty heap, and always has
\* a worker to ask, so every round passes a record on or ends the loop.
C1_RoundTrip ==
  NoShardLost =>
    /\ Len(emitted) <= Len(accepted)
    /\ \A k \in 1..Len(emitted) : SameAsSent(k) /\ emitted[k].frame.frame_number = k
    /\ dec_pc = "done" => Len(emitted) = Len(accepted)
    /\ dec_pc \notin {"gap", "panicked"}
    /\ dec_pc = "pull" => drain_i \in 1..Len(workers)

\* A session of MaxRecords records, Captured and Dropped, spread over two shards,
\* came back in full.
C1_Witness ==
  /\ NoShardLost /\ dec_pc = "done"
  /\ Len(emitted) = MaxRecords
  /\ \E w \in DOMAIN files : \E v \in DOMAIN files : w # v /\ files[w] # <<>> /\ files[v] # <<>>
  /\ \E k \in 1..Len(emitted) : emitted[k].frame.status = "Dropped"
  /\ \E k \in 1..Len(emitted) : emitted[k].frame.status = "Captured"

\* C9: no record compress_to_disk accepted is lost or doubled on its way (it is in
\* the channel, with one worker, or one whole packet of one shard), and when
\* finish has returned the sender is gone, every worker has exited and every
\* accepted record is a packet of exactly one shard.
C9_ShutdownLosesNothing ==
  /\ \A k \in 1..Len(accepted) :
       CopiesInShards(accepted[k]) + CopiesInFlight(accepted[k]) = 1
  /\ RecordsInShards + Len(channel) + HeldRecords = Len(accepted)
  /\ \A w \in DOMAIN files : ShardEnd(files[w], 0) = Len(files[w])
  /\ fin_pc = "done" =>
       /\ ~sender /\ channel = <<>>
       /\ \A w \in DOMAIN threads : threads[w] = "exited"
       /\ \A k \in 1..Len(accepted) : CopiesInShards(accepted[k]) = 1

\* finish returned after MaxRecords records were sent and both workers wrote some.
C9_Witness ==
  /\ fin_pc = "done" /\ Len(accepted) = MaxRecords
  /\ \E w \in DOMAIN files : \E v \in DOMAIN files : w # v /\ files[w] # <<>> /\ files[v] # <<>>

\* The frame numbers the lost shard held.
LostFrames ==
  {f.frame_number : f \in
     {accepted[k] : k \in {j \in 1..Len(accepted) :
        \E w \in DOMAIN files :
          ~on_disk[w] /\ Occurrences(ShardRecords(files[w], 0), accepted[j]) > 0}}}

\* C3 as stated: after the loss of one shard file, reassembly passes on N records
\* numbered 1..N: Missing (no payload, Err) for exactly the frame numbers the lost
\* shard held, every other record as it was sent.
C3_Original ==
  (dec_pc = "done" /\ ~NoShardLost) =>
    /\ Len(emitted) = Len(accepted)
    /\ \A k \in 1..Len(emitted) :
         IF k \in LostFrames
         THEN emitted[k] = Emission(MissingFrame(k), [ok |-> FALSE, t |-> <<>>])
         ELSE SameAsSent(k)

\* C2: the k-th call of in_order_function carries frame_number k, real record or
\* Missing, for any increasing shards with distinct frame numbers.
C2_EmittedInOrder ==
  /\ \A k \in 1..Len(emitted) : emitted[k].frame.frame_number = k
  /\ expected_frame = Len(emitted) + 1

\* Reassembly of two shards returned after passing on a Missing record between
\* real ones.
C2_Witness ==
  /\ dec_pc = "done" /\ Len(files) = 2
  /\ \E i \in 1..Len(emitted) : \E j \in 1..Len(emitted) : \E k \in 1..Len(emitted) :
       /\ i < j /\ j < k
       /\ emitted[i].result.ok /\ ~emitted[j].result.ok /\ emitted[k].result.ok

\* Captured exactly with a payload, Dropped or Missing exactly without.
PayloadMatchesStatus(f) ==
  /\ f.status = "Captured" <=> f.image_data.some
  /\ f.status \in {"Dropped", "Missing"} <=> ~f.image_data.some

\* C8: every record passed to the capture callback or to in_order_function is
\* Captured exactly when it has a payload and Dropped or Missing exactly when it
\* has none; the recorder creates and passes on only Captured and Dropped
\* records, and a Dropped record is queued without a buffer and never gets a map
\* request (its frame state stays 0).
C8_StatusMatchesPayload ==
  /\ \A k \in 1..Len(delivered) :
       /\ PayloadMatchesStatus(delivered[k])
       /\ delivered[k].status \in {"Captured", "Dropped"}
  /\ \A k \in 1..Len(emitted) : PayloadMatchesStatus(emitted[k].frame)
  /\ \A k \in 1..Len(created) :
       /\ PayloadMatchesStatus(created[k].frame)
       /\ created[k].frame.status \in {"Captured", "Dropped"}
  /\ \A i \in 1..Len(video_frames) :
       video_frames[i].status = "Dropped" =>
         /\ ~video_frames[i].image_data.some
         /\ i <= Len(frame_states) => frame_states[i] = 0

\* The capture callback got a Dropped and a Captured record, and in_order_function
\* got a Captured, a Dropped and a Missing one.
C8_Witness ==
  /\ \E k \in 1..Len(delivered) : delivered[k].status = "Dropped"
  /\ \E k \in 1..Len(delivered) : delivered[k].status = "Captured"
  /\ \E k \in 1..Len(emitted) : emitted[k].frame.status = "Captured"
  /\ \E k \in 1..Len(emitted) : emitted[k].frame.status = "Dropped"
  /\ \E k \in 1..Len(emitted) : emitted[k].frame.status = "Missing"

\* Reassembly returned short of the session: the lost shard held its last records.
C3_Witness ==
  /\ dec_pc = "done" /\ ~NoShardLost
  /\ emitted # <<>>
  /\ Len(emitted) < Len(accepted)
  /\ \E k \in 1..Len(emitted) : emitted[k].frame.status = "Missing"

(***************************************************************************)
(* Claims about the encode sink.                                           *)
(***************************************************************************)
BytesOf(seq) == [k \in 1..Len(seq) |-> seq[k].bytes]

\* The first call that carried bytes (one past the last call when none did).
FirstWithBytes ==
  IF \E k \in 1..Len(calls) : calls[k].bytes # <<>>
  THEN CHOOSE k \in 1..Len(calls) :
         /\ calls[k].bytes # <<>>
         /\ \A j \in 1..(k - 1) : calls[j].bytes = <<>>
  ELSE Len(calls) + 1

\* The last call up to k that carried bytes.
LastWithBytes(k) ==
  CHOOSE j \in 1..k :
    /\ calls[j].bytes # <<>>
    /\ \A i \in (j + 1)..k : calls[i].bytes = <<>>

WritesOf(k) == {j \in 1..Len(writes) : writes[j].call = k}

\* C11: from the first call with bytes on, every call of write causes exactly one
\* write_all, in call order: of its own bytes when it has some, else of the bytes
\* of the latest earlier call that had; the calls [a, empty, empty, b] cause the
\* writes a, a, a, b.
C11_OneWritePerRecord ==
  /\ \A k \in 1..Len(calls) :
       Cardinality(WritesOf(k)) = (IF k >= FirstWithBytes THEN 1 ELSE 0)
  /\ \A j \in 1..Len(writes) :
       /\ writes[j].bytes = calls[LastWithBytes(writes[j].call)].bytes
       /\ writes[j].bytes # <<>>
       /\ j > 1 => writes[j - 1].call < writes[j].call
  /\ BytesOf(calls) = <<<<97>>, <<>>, <<>>, <<98>>>>
       => BytesOf(writes) = <<<<97>>, <<97>>, <<97>>, <<98>>>>

\* The sink was given [a, empty, empty, b] and wrote four times.
C11_Witness ==
  /\ BytesOf(calls) = <<<<97>>, <<>>, <<>>, <<98>>>>
  /\ Len(writes) = 4

\* C12: a call of write with no bytes while prev_bytes is None changes nothing:
\* no write, no process spawned, child, timestamp and prev_bytes as before.
C12_SkipChangesNothing ==
  [][(/\ Len(calls') = Len(calls) + 1
      /\ calls'[Len(calls')].bytes = <<>>
      /\ ~prev_bytes.some)
     => UNCHANGED <<child, ffmpeg_timestamp, prev_bytes, spawned, writes>>]_vars

\* Two records without bytes were skipped and the sink is as FfmpegPipe::new left it.
C12_Witness ==
  /\ Len(calls) >= 2
  /\ \A k \in 1..Len(calls) : calls[k].bytes = <<>>
  /\ child = 0 /\ spawned = <<>> /\ writes = <<>> /\ ~prev_bytes.some

\* The calls at which a run of equal timestamps begins, counting from call `from`.
RunStarts(from) ==
  {k \in from..Len(calls) : k = from \/ calls[k].timestamp # calls[k - 1].timestamp}

OutputFiles == {spawned[p].output : p \in 1..Len(spawned)}

\* Every write went to the process spawned for the timestamp of its record.
OwnSessionOnly ==
  \A j \in 1..Len(writes) :
    spawned[writes[j].child].timestamp = calls[writes[j].call].timestamp

\* C13 as stated: a stream of k runs of session timestamps that has reached the
\* encoder gave k processes and k output files, each process written by records
\* of its own session only.
C13_Original ==
  writes # <<>> =>
    /\ Len(spawned) = Cardinality(RunStarts(1))
    /\ Cardinality(OutputFiles) = Cardinality(RunStarts(1))
    /\ OwnSessionOnly

\* C13: a process is spawned at the first call that is not skipped and at every
\* later call whose timestamp differs from the one before, and at no other call;
\* every write goes to the latest process, which was spawned for the timestamp of
\* the record; the output files are one per spawned timestamp when no
\* output_filename was given, and the one given file otherwise.
C13_SpawnPerSession ==
  /\ Len(spawned) = Cardinality(RunStarts(FirstWithBytes))
  /\ \A j \in 1..Len(writes) :
       writes[j].child =
         Cardinality({k \in RunStarts(FirstWithBytes) : k <= writes[j].call})
  /\ OwnSessionOnly
  /\ child = Len(spawned)
  /\ spawned # <<>> => ffmpeg_timestamp = spawned[Len(spawned)].timestamp
  /\ Cardinality(OutputFiles) =
       IF output_filename.some
       THEN (IF spawned = <<>> THEN 0 ELSE 1)
       ELSE Cardinality({spawned[p].timestamp : p \in 1..Len(spawned)})

\* Two sessions went through a sink without output_filename: two processes, each
\* written to, and two files.
C13_Witness ==
  /\ ~output_filename.some
  /\ Len(spawned) = 2
  /\ \A p \in 1..2 : \E j \in 1..Len(writes) : writes[j].child = p
  /\ Cardinality(OutputFiles) = 2

(***************************************************************************)
(* Claims about sessions in one directory.                                 *)
(***************************************************************************)
\* The calls of in_order_function made for the group of timestamp t, up to call k.
CallsOfGroup(t, k) == {i \in 1..k : emitted[i].timestamp = t}

\* The k-th call of in_order_function belongs to the group being processed, no
\* call for a later group came before it, and its frame_number counts the calls
\* of its group from 1.
GroupsInTurn ==
  \A k \in 1..Len(emitted) :
    /\ emitted[k].timestamp \in 1..dec_timestamp
    /\ \A i \in 1..k : emitted[i].timestamp <= emitted[k].timestamp
    /\ emitted[k].frame.frame_number = Cardinality(CallsOfGroup(emitted[k].timestamp, k))

\* Only files of groups reached so far have a reader, and the readers still open
\* and the records in the heap are of the group being processed.
ReadersOfGroup ==
  /\ \A w \in DOMAIN files : rd_pos[w] > 0 => file_timestamp[w] \in 1..dec_timestamp
  /\ \A i \in 1..Len(workers) : file_timestamp[workers[i]] = dec_timestamp
  /\ \A e \in min_heap : file_timestamp[e.src] = dec_timestamp

\* C14: the calls of in_order_function come group by group in increasing order of
\* timestamp, Missing records included, the frame numbers of each group counting
\* from 1; the readers of a group are started only when the loop of the group
\* before has returned with no reader open and nothing in the heap, and every call
\* made while a group is processed carries the timestamp of that group.
C14_SessionsNeverInterleave ==
  /\ [](GroupsInTurn /\ ReadersOfGroup)
  /\ [][/\ dec_timestamp' # dec_timestamp =>
             /\ dec_pc \in {"scanned", "done"}
             /\ workers = <<>> /\ min_heap = {}
             /\ dec_timestamp' > dec_timestamp
             /\ expected_frame' = ExpectedFrameStart
             /\ emitted' = emitted
             /\ \A w \in DOMAIN files : file_timestamp[w] >= dec_timestamp' => rd_pos[w] = 0
        /\ emitted' # emitted =>
             /\ dec_timestamp' = dec_timestamp
             /\ emitted'[Len(emitted')].timestamp = dec_timestamp]_vars

\* Two groups were processed, the second with a Missing record, and
\* in_order_function was called for both.
C14_Witness ==
  /\ dec_pc = "returned"
  /\ \E i, j, k \in 1..Len(emitted) :
       /\ i < j /\ j < k
       /\ emitted[i].timestamp = 1 /\ emitted[j].timestamp = 2
       /\ emitted[j].frame.frame_number = 1 /\ ~emitted[j].result.ok
       /\ emitted[k].frame.frame_number = 2 /\ emitted[k].timestamp = 2

\* Every record the reader of shard w can get was passed to in_order_function
\* with the timestamp of the shard.
ShardPassedOn(w) ==
  LET records == ShardRecords(files[w], 0)
  IN \A r \in 1..Len(records) :
       \E k \in 1..Len(emitted) :
         /\ emitted[k].frame = records[r]
         /\ emitted[k].result.ok
         /\ emitted[k].timestamp = file_timestamp[w]

\* C15: a shard file is gone only when remove_files_after_decompression is set and
\* decompress_from_disk has returned, after every record of every scanned shard
\* was passed to in_order_function; with the flag unset, or after a panic part-way,
\* every shard file is in the directory.
C15_RemovalOnlyAtEnd ==
  /\ (\E w \in DOMAIN on_disk : ~on_disk[w]) =>
       /\ remove_files_after_decompression
       /\ dec_pc = "returned"
       /\ \A v \in scanned : ShardPassedOn(v)
  /\ ~remove_files_after_decompression => \A w \in DOMAIN on_disk : on_disk[w]
  /\ dec_pc = "panicked" => \A w \in DOMAIN on_disk : on_disk[w]

\* The shards of two sessions were removed after both sessions were passed on.
C15_Witness ==
  /\ dec_pc = "returned"
  /\ \E v, w \in scanned : file_timestamp[v] # file_timestamp[w]
  /\ \A w \in scanned : ~on_disk[w]
  /\ Len(emitted) >= 3

(***************************************************************************)
(* Claims about damaged shards.                                            *)
(***************************************************************************)
\* The records the readers get from the shards as written, and as they are now.
IntactRecords == UNION {{r[i] : i \in 1..Len(r)} : r \in {ShardRecords(intact[w], 0) : w \in DOMAIN intact}}

ReadableRecords == UNION {{r[i] : i \in 1..Len(r)} : r \in {ShardRecords(files[w], 0) : w \in DOMAIN files}}

\* The frame numbers whose records the damage took away.
LostToDamage == {f.frame_number : f \in IntactRecords \ ReadableRecords}

PassedOnAsMissing(n) ==
  \E k \in 1..Len(emitted) :
    emitted[k] = Emission(MissingFrame(n), [ok |-> FALSE, t |-> <<>>])

PassedOnUnchanged(f) ==
  \E k \in 1..Len(emitted) :
    emitted[k] = Emission(f, [ok |-> TRUE, t |-> PerThreadFunction(f)])

\* C16 as stated: reassembly of a session with a truncated or undecodable shard
\* never aborts, and when it has returned every frame number lost to the damage was
\* passed to in_order_function as a Missing record and every other record as it
\* was written.
C16_Original ==
  /\ dec_pc # "panicked"
  /\ (dec_pc = "done" /\ files # intact) =>
       /\ \A n \in LostToDamage : PassedOnAsMissing(n)
       /\ \A f \in ReadableRecords : PassedOnUnchanged(f)

\* Reassembly returned on a damaged session: one lost frame number was passed on
\* as Missing, another was not passed on at all.
C16_Witness ==
  /\ dec_pc = "done" /\ files # intact
  /\ \E n \in LostToDamage : PassedOnAsMissing(n)
  /\ \E n \in LostToDamage : \A k \in 1..Len(emitted) : emitted[k].frame.frame_number # n
  /\ \A f \in ReadableRecords : PassedOnUnchanged(f)

(***************************************************************************)
(* Claims about a failed map.                                              *)
(***************************************************************************)
\* No record passed to the callback is the i-th queued record or a later capture.
NotDeliveredFrom(i) ==
  \A k \in 1..Len(delivered) : delivered[k].frame_number < video_frames[i].frame_number

\* C17: a record whose map failed, and every record captured after it, is not
\* among the records passed to the callback; with that record as the oldest one
\* queued, process_mapped_buffers panics without a call of the callback; after the
\* panic the records passed on are exactly those captured before the failed one,
\* in order, and nothing more happens to the recorder; a finish_frame that passes
\* records on and comes to a failed one panics.
C17_FailedMapIsFatal ==
  /\ [](/\ \A i \in 1..Len(frame_states) : frame_states[i] = 3 => NotDeliveredFrom(i)
        /\ (recorder /\ frame_states # <<>> /\ frame_states[1] = 3) =>
             Tick.panic /\ Tick.out = <<>>
        /\ panicked =>
             /\ frame_states[1] = 3
             /\ delivered = [k \in 1..(video_frames[1].frame_number - 1) |-> created[k].frame])
  /\ [][/\ ~panicked
        /\ (delivered' # delivered /\ frame_states' # <<>> /\ frame_states'[1] = 3) =>
             panicked']_vars

\* process_mapped_buffers panicked on the second capture after passing on the
\* first, with a third one queued behind.
C17_Witness ==
  /\ panicked
  /\ Len(delivered) = 1
  /\ Len(video_frames) = 2
  /\ video_frames[1].frame_number = 2

(***************************************************************************)
(* Claims about start_recording and stop_recording.                        *)
(***************************************************************************)
LastCall == api_calls[Len(api_calls)]

\* C18: after any call of stop_recording, the first call of the run and a second
\* stop in a row included, there is no recorder, nothing has panicked and every
\* pipeline the call listed has position None; and whenever the render thread is
\* between two steps of its own, stop_recording can be called with any list.
C18_StopNeverAborts ==
  /\ (api_calls # <<>> /\ LastCall.op = "stop") =>
       /\ ~recorder /\ ~panicked
       /\ video_frames = <<>> /\ frame_states = <<>>
       /\ \A i \in 1..Len(LastCall.pipelines) :
            position_in_recording[LastCall.pipelines[i]] = "None"
  /\ (~panicked /\ cap_pc = "idle" /\ Len(api_calls) < MaxCalls) =>
       \A pipelines \in PipelineLists :
         ENABLED (StopRecordingCall(pipelines) /\ UNCHANGED restVars)

\* stop_recording was called twice in a row on all pipelines with no
\* start_recording before.
C18_Witness ==
  /\ Len(api_calls) = 2
  /\ \A i \in 1..2 : api_calls[i].op = "stop" /\ Len(api_calls[i].pipelines) = MaxPipelines
  /\ ~recorder

\* C19 as stated: records of two start_recording...stop_recording spans are never
\* written to shards of one timestamp, and no frame_number occurs twice among the
\* records written to shards of one timestamp.
C19_Original ==
  \A i \in 1..Len(landed) : \A j \in 1..Len(landed) :
    (i # j /\ landed[i].timestamp = landed[j].timestamp) =>
      /\ landed[i].span = landed[j].span
      /\ landed[i].frame_number # landed[j].frame_number

\* Frame 1 of the first span and frame 1 of the second were written to shards of
\* the same timestamp.
C19_Witness ==
  \E i \in 1..Len(landed) : \E j \in 1..Len(landed) :
    /\ landed[i].span = 1 /\ landed[j].span = 2
    /\ landed[i].timestamp = landed[j].timestamp
    /\ landed[i].frame_number = 1 /\ landed[j].frame_number = 1

(***************************************************************************)
(* Claims about the bounded channel.                                       *)
(***************************************************************************)
\* Every record compress_to_disk was called with is in exactly one place: blocked
\* in send, in the channel, with a worker, or in a shard.
NothingDiscarded ==
  /\ Len(accepted) = Len(pending) + Len(channel) + HeldRecords + RecordsInShards
  /\ \A k \in 1..Len(accepted) :
       Occurrences(pending, accepted[k]) + CopiesInFlight(accepted[k])
         + CopiesInShards(accepted[k]) = 1

\* C20: with max_frames_queued = Some(k) the channel never holds more than k
\* records; a compress_to_disk call blocks only when the channel has no room,
\* stays blocked (no further call of the render thread) until there is room, and its
\* record is then put in the channel or, with k = 0, handed to a waiting worker;
\* no record is discarded; and with worker threads that keep running every blocked
\* call returns.
C20_BoundedBackpressure ==
  /\ [](Len(channel) <= max_frames_queued.bytes /\ NothingDiscarded)
  /\ [][/\ (pending = <<>> /\ pending' # <<>>) =>
             ~Room(max_frames_queued.bytes) /\ channel' = channel
        /\ pending # <<>> =>
             /\ accepted' = accepted /\ fin_pc' = fin_pc
             /\ pending' # pending =>
                  /\ Room(max_frames_queued.bytes)
                  /\ pending' = <<>>
                  /\ \/ channel' = Append(channel, pending[1])
                     \/ \E w \in DOMAIN held :
                          threads[w] = "recv" /\ held'[w] = pending[1]]_vars
  /\ (pending # <<>>) ~> (pending = <<>>)

\* A compress_to_disk call is blocked on a full channel of depth 1 while both
\* worker threads are writing.
C20_Witness ==
  /\ pending # <<>>
  /\ max_frames_queued = Some(1)
  /\ Len(channel) = 1
  /\ \A w \in DOMAIN threads : threads[w] = "write"

(***************************************************************************)
(* Drop for FfmpegPipe (ffmpeg_pipe.rs): the teardown of the encode sink.  *)
(***************************************************************************)
\* The stdin handle of a process lives in the Child value the sink holds: the handle
\* of process p is open exactly while self.child is process p.
StdinOpen(p) == child = p

\* drop(&mut self): take the child the sink holds, wait for it (which closes its
\* stdin first), return if the thread is panicking, else abort on a non-zero exit
\* status.  The exit statuses of the processes are the environment's choice.
DropSink(thread_panicking, failed) ==
  /\ sink_pc = "alive"
  /\ failed \subseteq 1..Len(spawned)
  /\ exit_failed' = failed
  /\ IF child = 0
     THEN /\ sink_pc' = "dropped"
          /\ UNCHANGED <<child, awaited>>
     ELSE /\ child' = 0
          /\ awaited' = awaited \cup {child}
          /\ sink_pc' = IF thread_panicking THEN "unwound"
                        ELSE IF child \in failed THEN "panicked"
                        ELSE "dropped"
  /\ UNCHANGED <<output_filename, ffmpeg_timestamp, prev_bytes, spawned, writes, calls>>

NextTeardown ==
  \/ \E png_bytes \in PngBytes : \E timestamp \in 1..MaxSessions :
       Write(png_bytes, timestamp) /\ UNCHANGED <<capVars, compVars, decVars, sessVars, intact, recVars, boundVars, rtVars, rdrVars, mapVars, strVars, finVars>>
  \/ \E thread_panicking \in BOOLEAN : \E failed \in SUBSET (1..MaxWrites) :
       DropSink(thread_panicking, failed) /\ UNCHANGED <<capVars, compVars, decVars, sessVars, intact, recVars, boundVars, rtVars, rdrVars, mapVars, strVars, finVars>>

SpecTeardown == InitFfmpeg /\ [][NextTeardown]_vars

\* C21: once the sink is dropped, the stdin of each encoder process it spawned is
\* closed and the process was awaited; the drop aborts exactly when a process exited
\* with a non-zero status and the thread was not already unwinding; a sink that
\* never spawned a process tears down without any effect.
C21_Original ==
  sink_pc # "alive" =>
    /\ \A p \in 1..Len(spawned) : ~StdinOpen(p) /\ p \in awaited
    /\ (sink_pc = "panicked") <=> (sink_pc # "unwound" /\ exit_failed # {})
    /\ spawned = <<>> => (sink_pc = "dropped" /\ awaited = {} /\ writes = <<>>)

\* A sink that spawned two processes is dropped without an abort although the first
\* process, which was never awaited, exited with a non-zero status.
C21_Witness ==
  /\ sink_pc = "dropped"
  /\ Len(spawned) = 2
  /\ exit_failed = {1}
  /\ awaited = {2}
  /\ ~StdinOpen(1) /\ ~StdinOpen(2)

(***************************************************************************)
(* RenderThread (render_thread.rs): function calls sent over a channel to  *)
(* the thread that owns the Renderer.                                      *)
(***************************************************************************)
MaxFunctionCalls == 4

\* The FunctionCalls of the model: one without a return value, synchronize, and
\* one with a return value other than Synchronized.
FunctionCalls == {"Render", "Synchronize", "AdapterInfo"}

\* The calls whose method waits on rv_receiver.
Returning(call) == call \in {"Synchronize", "AdapterInfo"}

\* The ReturnValue the render thread sends for a call.
ReturnValueOf(call) == IF call = "Synchronize" THEN "Synchronized" ELSE call

\* A receiver that takes the message sent last.
RecvNewest(ch) == Len(ch)

\* fn_receiver.recv() takes the message that was sent first.
RecvIndex(ch) == 1

\* A method of RenderThread: send the FunctionCall; synchronize and the methods
\* with a return value then wait in rv_receiver.recv().
SendCall(call) ==
  /\ client_pc = "idle"
  /\ Len(fn_calls) < MaxFunctionCalls
  /\ fn_calls' = Append(fn_calls, call)
  /\ fn_channel' = Append(fn_channel, Len(fn_calls) + 1)
  /\ client_pc' = IF Returning(call) THEN "recv" ELSE "idle"
  /\ UNCHANGED <<rv_channel, executing, executed, returns>>

\* while let Ok(message) = fn_receiver.recv(): the render thread takes a call.
ThreadRecv ==
  /\ executing = 0
  /\ fn_channel # <<>>
  /\ executing' = fn_channel[RecvIndex(fn_channel)]
  /\ fn_channel' = RemoveAt(fn_channel, RecvIndex(fn_channel))
  /\ UNCHANGED <<rv_channel, executed, client_pc, fn_calls, returns>>

\* The match arm of the call ends; rv_sender.send blocks while the bounded(1)
\* channel is full.
ThreadFinish ==
  /\ executing # 0
  /\ IF Returning(fn_calls[executing])
     THEN /\ Len(rv_channel) < 1
          /\ rv_channel' = Append(rv_channel, ReturnValueOf(fn_calls[executing]))
     ELSE UNCHANGED rv_channel
  /\ executed' = Append(executed, executing)
  /\ executing' = 0
  /\ UNCHANGED <<fn_channel, client_pc, fn_calls, returns>>

\* rv_receiver.recv() returns: the method returns, or reaches unreachable!() when
\* the value is not the one of its call.
MethodReturn ==
  /\ client_pc = "recv"
  /\ rv_channel # <<>>
  /\ rv_channel' = Tail(rv_channel)
  /\ client_pc' = IF Head(rv_channel) = ReturnValueOf(fn_calls[Len(fn_calls)])
                  THEN "idle" ELSE "panicked"
  /\ returns' = Append(returns, [call |-> Len(fn_calls), finished |-> executed])
  /\ UNCHANGED <<fn_channel, executing, executed, fn_calls>>

InitRenderThread ==
  NoRecorder /\ NoCompressor /\ NoDecompressor /\ NoExtras

NextRenderThread ==
  \/ \E call \in FunctionCalls : SendCall(call) /\ UNCHANGED <<capVars, compVars, decVars, pipeVars, sessVars, intact, recVars, boundVars, rdrVars, mapVars, strVars, finVars>>
  \/ ThreadRecv /\ UNCHANGED <<capVars, compVars, decVars, pipeVars, sessVars, intact, recVars, boundVars, rdrVars, mapVars, strVars, finVars>>
  \/ ThreadFinish /\ UNCHANGED <<capVars, compVars, decVars, pipeVars, sessVars, intact, recVars, boundVars, rdrVars, mapVars, strVars, finVars>>
  \/ MethodReturn /\ UNCHANGED <<capVars, compVars, decVars, pipeVars, sessVars, intact, recVars, boundVars, rdrVars, mapVars, strVars, finVars>>

SpecRenderThread == InitRenderThread /\ [][NextRenderThread]_vars

\* The calls 1..n in the order they were sent.
FirstCalls(n) == [k \in 1..n |-> k]

\* C22: the render thread executes the calls one at a time in the order they were
\* sent (what has finished is a prefix of what was sent, and the call in execution
\* is the next one), and when synchronize returns, the Synchronized value is its
\* own and every call sent before it has finished.
C22_InOrderAndSynchronized ==
  /\ executed = FirstCalls(Len(executed))
  /\ executing \in {0, Len(executed) + 1}
  /\ client_pc # "panicked"
  /\ \A i \in 1..Len(returns) :
       \A k \in 1..returns[i].call :
         \E j \in 1..Len(returns[i].finished) : returns[i].finished[j] = k

\* synchronize has returned after two calls without a return value were sent
\* before it, while nothing else was sent.
C22_Witness ==
  /\ fn_calls = <<"Render", "Render", "Synchronize">>
  /\ client_pc = "idle"
  /\ Len(returns) = 1
  /\ executed = <<1, 2, 3>>

(***************************************************************************)
(* The order of the packets within a shard.                                *)
(***************************************************************************)
\* C23: the records a reader gets out of any one shard are the whole shard and are
\* in strictly increasing frame_number order, whatever the interleaving of the
\* worker threads, when compress_to_disk is given the records in increasing order.
C23_ShardInOrder ==
  \A w \in DOMAIN files :
    LET records == ShardRecords(files[w], 0)
    IN /\ ShardEnd(files[w], 0) = Len(files[w])
       /\ \A i, j \in 1..Len(records) :
            i < j => records[i].frame_number < records[j].frame_number

\* One worker has written the records 2 and 3 to its shard while another still
\* holds record 1: the shards are not written in frame order.
C23_Witness ==
  \E w, v \in DOMAIN files :
    /\ w # v
    /\ threads[v] = "write" /\ held[v].frame_number = 1
    /\ Len(ShardRecords(files[w], 0)) = 2
    /\ ShardRecords(files[w], 0)[1].frame_number = 2
    /\ ShardRecords(files[w], 0)[2].frame_number = 3

(***************************************************************************)
(* The merge round of order_frames_from_worker_threads.                    *)
(***************************************************************************)
\* The readers the current drain_filter pass is done with.
ReadersPassed == {workers[i] : i \in 1..(drain_i - 1)}

\* C24: every recv of a merge round either finds the reader's channel closed, and
\* then exactly that reader is retired and nothing is pushed, or pushes the one
\* record received onto the heap and keeps the reader; after a payload-less record
\* the next recv is on the same reader, after a payload-carrying record the pass
\* is done with that reader for this round; no reader is asked twice in a round.
C24_StopAtFirstPayload ==
  [][dec_pc = "pull" =>
      LET w == workers[drain_i]
          r == ReadPacket(files[w], rd_pos[w])
          pushed == min_heap' \ min_heap
      IN /\ IF r.kind = "end"
            THEN /\ workers' = RemoveAt(workers, drain_i)
                 /\ pushed = {}
            ELSE /\ workers' = workers
                 /\ Cardinality(pushed) = 1
                 /\ \A e \in pushed : e.frame = r.frame /\ e.src = w
                 /\ min_heap \subseteq min_heap'
         /\ dec_pc' \in {"pull", "pop"}
         /\ dec_pc' = "pull" =>
              /\ ReadersPassed \subseteq ReadersPassed'
              /\ (r.kind = "frame" /\ ~r.frame.image_data.some) <=> workers'[drain_i'] = w
         /\ dec_pc' = "pop" =>
              /\ drain_i = Len(workers)
              /\ r.kind = "end" \/ r.frame.image_data.some]_vars

\* In the first round the pass took a payload-less record and then a
\* payload-carrying one from the first reader and went on to the second reader.
C24_Witness ==
  /\ dec_pc = "pull" /\ drain_i = 2 /\ emitted = <<>>
  /\ Cardinality(min_heap) = 2
  /\ \E e1, e2 \in min_heap :
       /\ e1.src = workers[1] /\ e2.src = workers[1]
       /\ e1.at < e2.at
       /\ ~e1.frame.image_data.some /\ e2.frame.image_data.some

(***************************************************************************)
(* The gap fill and the end of order_frames_from_worker_threads.           *)
(***************************************************************************)
\* The smallest frame_number on the heap.
SmallestOnHeap == (CHOOSE e \in MinEntries(min_heap) : TRUE).frame.frame_number

\* C25: the gap fill is entered only after a round that passed no record on, with
\* the expected frame below the smallest frame_number on the heap; each of its
\* steps passes on one Missing record for expected_frame and leaves the heap
\* alone, and it ends exactly when expected_frame has reached the smallest
\* frame_number on the heap; a Missing record comes from nowhere else; and the
\* reassembly returns exactly when no reader is left and the heap is empty.
C25_GapFilling ==
  /\ [](dec_pc = "gap" =>
          /\ ~advanced_by_at_least_one_frame
          /\ min_heap # {}
          /\ next_available_frame = SmallestOnHeap
          /\ expected_frame < SmallestOnHeap)
  /\ [](dec_pc = "done" => workers = <<>> /\ min_heap = {})
  /\ [][/\ dec_pc = "gap" =>
             /\ emitted' = Append(emitted,
                  Emission(MissingFrame(expected_frame), [ok |-> FALSE, t |-> <<>>]))
             /\ expected_frame' = expected_frame + 1
             /\ min_heap' = min_heap
             /\ dec_pc' # "gap" <=> expected_frame' = SmallestOnHeap
        /\ (Len(emitted') > Len(emitted) /\ emitted'[Len(emitted')].frame.status = "Missing")
             => dec_pc = "gap"
        /\ (dec_pc = "pop" /\ workers = <<>> /\ min_heap = {}) => dec_pc' = "done"
        /\ (dec_pc # "done" /\ dec_pc' = "done") =>
             (dec_pc = "pop" /\ workers = <<>> /\ min_heap = {})]_vars

\* The shard with the records 1 and 2 was deleted: two Missing records were passed
\* on and the gap fill ended with expected_frame at record 3, which is on the heap.
C25_Witness ==
  /\ Len(emitted) = 2
  /\ emitted[1].frame = MissingFrame(1) /\ emitted[2].frame = MissingFrame(2)
  /\ dec_pc # "gap"
  /\ expected_frame = 3
  /\ min_heap # {} /\ SmallestOnHeap = 3

(***************************************************************************)
(* The Decompressor on two shards of which one holds a consecutive run of  *)
(* the session's first records and the other only later ones.              *)
(***************************************************************************)
MaxRunFrames == 7

\* A shard with the Captured records from..to.
RECURSIVE RunShard(_, _)
RunShard(from, to) ==
  IF from > to THEN <<>>
  ELSE Packet(VideoFrame("Captured", Some(Pixels(from, 1)), from, 1))
         \o RunShard(from + 1, to)

\* The session's records first..MaxRunFrames, split at k; the shard with the later
\* records is read first or second.
InitLongRun ==
  /\ NoRecorder
  /\ \E first \in 1..2 : \E k \in 0..MaxRunFrames : \E later_first \in BOOLEAN :
       files = IF later_first
               THEN <<RunShard(k + 1, MaxRunFrames), RunShard(first, k)>>
               ELSE <<RunShard(first, k), RunShard(k + 1, MaxRunFrames)>>
  /\ threads = [w \in 1..2 |-> "exited"]
  /\ held = [w \in 1..2 |-> NoFrame]
  /\ joined = 2
  /\ sender = FALSE
  /\ channel = <<>>
  /\ fin_pc = "done"
  /\ accepted = <<>>
  /\ NoDecompressor
  /\ NoExtras

SpecLongRun == InitLongRun /\ [][NextShards]_vars

\* The payload-carrying records the heap holds.
CapturedOnHeap == {e \in min_heap : e.frame.image_data.some}

\* C26: the heap never holds more payload-carrying records than there are shards,
\* however the records are distributed over the shards.
C26_Original == Cardinality(CapturedOnHeap) <= Len(files)

\* With two shards the heap holds four payload-carrying records, three of them
\* from the shard with the later records, none of which is the expected one.
C26_Witness ==
  /\ Len(files) = 2
  /\ Cardinality(CapturedOnHeap) = 4
  /\ \E w \in DOMAIN files :
       Cardinality({e \in CapturedOnHeap :
                      e.src = w /\ e.frame.frame_number > expected_frame}) = 3

(***************************************************************************)
(* The reader threads of Decompressor::spawn_worker, each with a channel   *)
(* of capacity zero to the coordinator.                                    *)
(***************************************************************************)
\* A channel of capacity one: send returns while the record before is in the channel.
SendReturnedBuffered(outstanding) == outstanding <= 1

\* sender.send on the bounded(0) channel returns when the coordinator has received
\* the record: the reader is in its loop again only with no record outstanding.
SendReturned(outstanding) == outstanding = 0

\* Where reader w reads next: behind the records it has decoded.
ReaderPos(w) ==
  IF reader_held[w] = <<>> THEN rd_pos[w]
  ELSE reader_held[w][Len(reader_held[w])].next

\* decompress_from_disk spawns a reader thread per shard file and enters
\* order_frames_from_worker_threads.
StartReaders ==
  /\ StartDecompress
  /\ reader_pc' = [w \in DOMAIN files |-> IF on_disk[w] THEN "run" ELSE "idle"]
  /\ reader_held' = [w \in DOMAIN files |-> <<>>]
  /\ reader_log' = [w \in DOMAIN files |-> [decoded |-> 0, received |-> 0]]

\* One iteration of the reader's loop up to the send: read a packet, decode it and
\* call per_thread_function; or return, which drops the sender.
ReaderDecode(w) ==
  /\ reader_pc[w] = "run"
  /\ SendReturned(Len(reader_held[w]))
  /\ \E r \in {ReadPacket(files[w], ReaderPos(w))} :
        IF r.kind = "frame"
        THEN /\ reader_held' = [reader_held EXCEPT ![w] =
                  Append(@, [frame |-> r.frame, t |-> PerThreadFunction(r.frame),
                             next |-> r.next])]
             /\ reader_log' = [reader_log EXCEPT ![w].decoded = @ + 1]
             /\ UNCHANGED reader_pc
        ELSE /\ reader_pc' = [reader_pc EXCEPT ![w] = "closed"]
             /\ UNCHANGED <<reader_held, reader_log>>
  /\ UNCHANGED decVars

\* worker.receiver.recv() of the coordinator: it blocks until the reader is in send
\* or has dropped its sender.
RecvFromReader ==
  /\ dec_pc = "pull"
  /\ LET w == workers[drain_i]
     IN /\ reader_held[w] # <<>> \/ reader_pc[w] = "closed"
        /\ DecPull
        /\ IF reader_held[w] # <<>>
           THEN /\ reader_held' = [reader_held EXCEPT ![w] = Tail(@)]
                /\ reader_log' = [reader_log EXCEPT ![w].received = @ + 1]
           ELSE UNCHANGED <<reader_held, reader_log>>
        /\ UNCHANGED reader_pc

NextReaders ==
  \/ StartReaders /\ UNCHANGED <<capVars, compVars, pipeVars, sessVars, intact, recVars, boundVars, rtVars, mapVars, strVars, finVars>>
  \/ \E w \in DOMAIN reader_pc : ReaderDecode(w) /\ UNCHANGED <<capVars, compVars, pipeVars, sessVars, intact, recVars, boundVars, rtVars, mapVars, strVars, finVars>>
  \/ RecvFromReader /\ UNCHANGED <<capVars, compVars, pipeVars, sessVars, intact, recVars, boundVars, rtVars, mapVars, strVars, finVars>>
  \/ DecPop /\ UNCHANGED <<capVars, compVars, extVars>>
  \/ DecGap /\ UNCHANGED <<capVars, compVars, extVars>>

SpecReaders == InitShards /\ [][NextReaders]_vars

\* C27: a reader never holds more than one decoded record the coordinator has not
\* received, it has decoded at most one record more than the coordinator has
\* received from it, the record it holds is the one the coordinator receives next,
\* and it decodes a packet only when the coordinator has received all it decoded.
C27_ReaderRendezvous ==
  /\ [](\A w \in DOMAIN reader_held :
          /\ Len(reader_held[w]) <= 1
          /\ reader_log[w].decoded - reader_log[w].received = Len(reader_held[w])
          /\ reader_held[w] # <<>> =>
               reader_held[w][1].frame = ReadPacket(files[w], rd_pos[w]).frame)
  /\ [][\A w \in DOMAIN reader_log :
          (w \in DOMAIN reader_log' /\ reader_log'[w].decoded > reader_log[w].decoded)
             => reader_log[w].decoded = reader_log[w].received]_vars

\* A reader has decoded its second record after the coordinator received the first,
\* and waits in send while the coordinator has passed nothing on yet.
C27_Witness ==
  \E w \in DOMAIN reader_log :
    /\ reader_log[w] = [decoded |-> 2, received |-> 1]
    /\ Len(reader_held[w]) = 1
    /\ dec_pc = "pull"
    /\ emitted = <<>>

(***************************************************************************)
(* The length fields of a packet.                                          *)
(***************************************************************************)
\* The packet_len field of the packet at offset pos.
PacketLenAt(stream, pos) == FromBeBytes(SubSeq(stream, pos + 1, pos + U64_LEN))

\* The video_frame_len field of the packet at offset pos.
VideoFrameLenAt(stream, pos) ==
  FromBeBytes(SubSeq(stream, pos + U64_LEN + 1, pos + U64_LEN + U64_LEN))

\* The raw bytes the writer appended for a record.
RawBytes(f) == IF f.image_data.some THEN f.image_data.bytes ELSE <<>>

\* The reader gets out of the packet at pos of shard w what was written for the
\* record sent: the metadata length, the raw bytes, and the packet's end.
ReaderAgrees(w, pos) ==
  LET r == ReadPacket(files[w], pos)
      sent == accepted[r.frame.frame_number]
      packet_len == PacketLenAt(files[w], pos)
      video_frame_len == VideoFrameLenAt(files[w], pos)
  IN /\ video_frame_len = Len(EncodeFrame(sent))
     /\ r.frame.image_data = sent.image_data
     /\ sent.image_data.some =>
          RemainderLen(packet_len, video_frame_len) = Len(RawBytes(sent))
     /\ r.next = pos + U64_LEN + U64_LEN + video_frame_len + Len(RawBytes(sent))

\* C28 as stated: for every packet written, packet_len = 8 + metadata_len +
\* len(raw bytes), and the reader reads as many image bytes as were appended.
C28_Original ==
  \A w \in DOMAIN files :
    /\ ShardEnd(files[w], 0) = Len(files[w])
    /\ \A pos \in PacketStarts(files[w], 0) :
         /\ PacketLenAt(files[w], pos) =
              U64_LEN + VideoFrameLenAt(files[w], pos)
                + Len(RawBytes(accepted[ReadPacket(files[w], pos).frame.frame_number]))
         /\ ReaderAgrees(w, pos)

\* C28: for every packet written, packet_len counts both length fields, the
\* metadata and the raw bytes (8 + 8 + metadata_len + len(raw bytes)); the reader
\* subtracts both length fields and the metadata and so reads exactly the image
\* bytes the writer appended, and every shard is read to its end.
C28_PacketLength ==
  \A w \in DOMAIN files :
    /\ ShardEnd(files[w], 0) = Len(files[w])
    /\ \A pos \in PacketStarts(files[w], 0) :
         /\ PacketLenAt(files[w], pos) =
              U64_LEN + U64_LEN + VideoFrameLenAt(files[w], pos)
                + Len(RawBytes(accepted[ReadPacket(files[w], pos).frame.frame_number]))
         /\ ReaderAgrees(w, pos)

\* A shard begins with the packet of a Captured record with two raw bytes, followed
\* by another packet.
C28_Witness ==
  \E w \in DOMAIN files :
    /\ Cardinality(PacketStarts(files[w], 0)) = 2
    /\ ReadPacket(files[w], 0).frame.image_data.some
    /\ Len(ReadPacket(files[w], 0).frame.image_data.bytes) = 2
    /\ PacketLenAt(files[w], 0) = 22

(***************************************************************************)
(* The map requests of initiate_buffer_mapping.                            *)
(***************************************************************************)
\* The records initiate_buffer_mapping calls map_async for, in the order of its
\* loop: those without a state that carry image data.
RECURSIVE MapRequests(_, _, _)
MapRequests(frames, states, i) ==
  IF i > Len(frames) THEN <<>>
  ELSE IF AlreadyInitiated(states, i) THEN MapRequests(frames, states, i + 1)
  ELSE (IF frames[i].image_data.some THEN <<frames[i].frame_number>> ELSE <<>>)
         \o MapRequests(frames,
              Append(states, IF frames[i].image_data.some THEN 1 ELSE 0), i + 1)

\* finish_frame, with the map_async calls of its initiate_buffer_mapping recorded.
FinishFrameRequests ==
  /\ FinishFrameHold
  /\ map_requests' = map_requests \o MapRequests(video_frames, frame_states, 1)

NextMapping ==
  \/ \E size \in 1..MaxFrameSize : CaptureAdd(size) /\ UNCHANGED <<compVars, decVars, extVars>>
  \/ CaptureDecide /\ UNCHANGED <<compVars, decVars, extVars>>
  \/ FinishFrameRequests /\ UNCHANGED <<compVars, decVars, pipeVars, sessVars, intact, recVars, boundVars, rtVars, rdrVars, strVars, finVars>>
  \/ \E i \in 1..MaxCaptures : MapComplete(i) /\ UNCHANGED <<compVars, decVars, extVars>>
  \/ \E i \in 1..MaxCaptures : MapFail(i) /\ UNCHANGED <<compVars, decVars, extVars>>
  \/ \E f \in live : Release(f) /\ UNCHANGED <<compVars, decVars, extVars>>
  \/ StopRecording /\ UNCHANGED <<compVars, decVars, extVars>>

SpecMapping == InitCapture /\ [][NextMapping]_vars

\* How often map_async was called for frame_number n.
RequestsFor(n) == Cardinality({k \in 1..Len(map_requests) : map_requests[k] = n})

\* The record is queued and initiate_buffer_mapping has not seen it yet.
AwaitsTick(f) ==
  \E i \in (Len(frame_states) + 1)..Len(video_frames) : video_frames[i] = f

\* C29: the state queue is never longer than the record queue and entry i of it
\* belongs to entry i of the record queue (the placeholder 0 exactly for a record
\* without image data); no record gets two map requests and a Dropped record gets
\* none; a Captured record has its one request unless no finish_frame has come
\* since its capture (or the recorder was dropped before one); every record
\* passed on had as many requests as its status says; and after
\* initiate_buffer_mapping every queued record has a state entry, so that
\* process_mapped_buffers panics only on a failed map.
C29_OneRequestAligned ==
  /\ [](/\ Len(frame_states) <= Len(video_frames)
        /\ \A i \in 1..Len(frame_states) :
             (frame_states[i] = 0) <=> ~video_frames[i].image_data.some
        /\ \A k \in 1..Len(created) :
             LET f == created[k].frame
             IN /\ RequestsFor(f.frame_number) <= 1
                /\ ~f.image_data.some => RequestsFor(f.frame_number) = 0
                /\ (f.image_data.some /\ RequestsFor(f.frame_number) = 0)
                     => (AwaitsTick(f) \/ ~recorder)
        /\ \A k \in 1..Len(delivered) :
             RequestsFor(delivered[k].frame_number) =
               IF delivered[k].image_data.some THEN 1 ELSE 0
        /\ Len(InitiateBufferMapping(video_frames, frame_states, 1)) = Len(video_frames))
  /\ [][panicked' /\ ~panicked => Tick.states[1] = 3]_vars

\* A Captured record was passed on, and of the two records queued the first, a
\* Captured one, is still being mapped and the second is Dropped: two requests
\* were made in all, over at least two calls of finish_frame.
C29_Witness ==
  /\ Len(delivered) = 1 /\ delivered[1].image_data.some
  /\ Len(video_frames) = 2 /\ frame_states = <<1, 0>>
  /\ video_frames[1].image_data.some /\ ~video_frames[2].image_data.some
  /\ Len(map_requests) = 2

(***************************************************************************)
(* process_mapped_buffers never waits for a map.                           *)
(***************************************************************************)
\* The state queue process_mapped_buffers finds in finish_frame.
StatesAtCall == InitiateBufferMapping(video_frames, frame_states, 1)

\* C30: in every state of the recorder a call of process_mapped_buffers comes to
\* an end without waiting: it passes on a prefix of the records queued at the
\* call, every one of them Dropped or mapped, leaves the rest of both queues as
\* they were, and stops exactly at the queue's end, at a record whose map is
\* pending, or at a failed map; with the oldest record pending it passes on nothing.
C30_NeverBlocksOnMapping ==
  LET r == ProcessMappedBuffers(video_frames, StatesAtCall, <<>>)
      n == Len(r.out)
  IN /\ n <= Len(video_frames)
     /\ r.out = SubSeq(video_frames, 1, n)
     /\ r.frames = SubSeq(video_frames, n + 1, Len(video_frames))
     /\ r.states = SubSeq(StatesAtCall, n + 1, Len(StatesAtCall))
     /\ \A i \in 1..n : StatesAtCall[i] \in {0, 2}
     /\ IF r.frames = <<>> THEN ~r.panic
        ELSE IF r.states[1] = 1 THEN ~r.panic
        ELSE r.states[1] = 3 /\ r.panic
     /\ (StatesAtCall # <<>> /\ StatesAtCall[1] = 1) => n = 0

\* An earlier call passed a record on; now the oldest record is still being mapped
\* with a mapped record and a Dropped one queued behind it, and a call of
\* process_mapped_buffers returns without passing anything on.
C30_Witness ==
  /\ delivered # <<>>
  /\ ~panicked /\ recorder
  /\ Len(video_frames) = 2
  /\ frame_states = <<1, 2>>
  /\ Tick.out = <<>> /\ ~Tick.panic

FrameNumbersFrom(w, pos) ==
  {ShardRecords(files[w], pos)[i].frame_number :
     i \in 1..Len(ShardRecords(files[w], pos))}

NumbersOnDisk ==
  UNION {FrameNumbersFrom(w, 0) : w \in {v \in DOMAIN files : on_disk[v]}}

\* Shards as a recorded session leaves them: distinct frame_numbers from 1 on,
\* increasing within each shard, possibly with numbers absent.
InitReassembly ==
  /\ InitShards
  /\ \A w \in DOMAIN files : 0 \notin FrameNumbersFrom(w, 0)

\* The reader threads and the coordinator are scheduled as long as they can step.
SpecReassembly == InitReassembly /\ [][NextReaders]_vars /\ WF_vars(NextReaders)

\* C33: once started, order_frames_from_worker_threads returns; it never panics or
\* runs past the records; and when it has returned every reader thread has ended
\* and was retired, the heap is empty, and the last record passed on carries the
\* largest frame_number any shard holds.
C33_ReassemblyTerminates ==
  /\ [](dec_pc # "panicked")
  /\ [](dec_pc = "done" =>
          /\ workers = <<>>
          /\ min_heap = {}
          /\ \A w \in DOMAIN reader_pc :
               on_disk[w] => (reader_pc[w] = "closed" /\ reader_held[w] = <<>>)
          /\ IF NumbersOnDisk = {} THEN emitted = <<>>
             ELSE /\ emitted # <<>>
                  /\ \A n \in NumbersOnDisk :
                       n <= emitted[Len(emitted)].frame.frame_number
                  /\ emitted[Len(emitted)].frame.frame_number \in NumbersOnDisk)
  /\ (dec_pc = "pull" ~> dec_pc = "done")

\* The reassembly of two shards has returned after passing on a Missing record for
\* frame 1 and the records 2 and 3, one from each shard.
C33_Witness ==
  /\ dec_pc = "done"
  /\ Len(files) = 2
  /\ FrameNumbersFrom(1, 0) # {} /\ FrameNumbersFrom(2, 0) # {}
  /\ NumbersOnDisk = {2, 3}
  /\ Len(emitted) = 3
  /\ emitted[1].frame.status = "Missing"

(***************************************************************************)
(* The gap fill on shards that hold any frame_numbers.                     *)
(***************************************************************************)
\* C34: whenever the gap fill runs, the heap is non-empty and its smallest
\* frame_number is above expected_frame, so the loop that passes Missing records
\* on reaches next_available_frame.
C34_Original ==
  dec_pc = "gap" =>
    /\ min_heap # {}
    /\ expected_frame < SmallestOnHeap
    /\ expected_frame < next_available_frame

\* A shard holds frame 0: the gap fill runs with that record as the smallest on the
\* heap and has passed on Missing records for frame 1 and beyond.
C34_Witness ==
  /\ dec_pc = "gap"
  /\ next_available_frame = 0
  /\ SmallestOnHeap = 0
  /\ expected_frame > MaxFrameNo + 1
  /\ emitted # <<>>
  /\ emitted[Len(emitted)].frame.status = "Missing"
  /\ emitted[Len(emitted)].frame.frame_number > MaxFrameNo

(***************************************************************************)
(* What stop_recording and a replacing start_recording do to the queue.    *)
(***************************************************************************)
\* The records recorder s has passed to its callback, counted up to place i.
LandedBefore(i) ==
  Cardinality({j \in 1..(i - 1) : landed[j].span = landed[i].span})

C36_Original ==
  /\ \A p \in DOMAIN position_in_recording :
       position_in_recording[p] # "None" => recorder
  /\ Cardinality({p \in DOMAIN position_in_recording :
                    position_in_recording[p] = "Last"}) <= 1

\* stop_recording was called with a list that leaves out the last pipeline of
\* the start_recording before it: that pipeline is Last and no recorder is installed.
C36_Witness ==
  /\ ~recorder
  /\ Len(api_calls) = 2
  /\ api_calls[1].op = "start" /\ api_calls[2].op = "stop"
  /\ \E p \in DOMAIN position_in_recording :
       /\ position_in_recording[p] = "Last"
       /\ \A i \in 1..Len(api_calls[2].pipelines) : api_calls[2].pipelines[i] # p

(***************************************************************************)
(* CaptureStream (capture_stream.rs) with its own StreamFrame.             *)
(***************************************************************************)
\* The width the model gives the AtomicUsize counter.
CounterBits == 5

UsizeRange == 2 ^ CounterBits

\* AtomicUsize::fetch_add and fetch_sub wrap around.
WrappingAdd(a, b) == (a + b) % UsizeRange

WrappingSub(a, b) == (a - b + UsizeRange) % UsizeRange

StreamFrame(buffer, n, size) ==
  [buffer |-> buffer, frame_number |-> n, frame_size_in_bytes |-> size]

\* impl Drop for StreamFrame: fetch_sub(frame_size_in_bytes), buffer or not.
StreamFrameDropAmount(f) == f.frame_size_in_bytes

\* CaptureStream::new; a consumer keeps the records process_function is passed.
InitCaptureStream ==
  /\ recorder = FALSE
  /\ max_buffer_size_in_bytes \in 0..MaxBudget
  /\ buffer_size_in_bytes = 0
  /\ video_frames = <<>>
  /\ frame_states = <<>>
  /\ frame_number = 0
  /\ cap_pc = "idle"
  /\ cap_local = NoLocal
  /\ panicked = FALSE
  /\ live = {}
  /\ created = <<>>
  /\ delivered = <<>>
  /\ ledger = NoLedger
  /\ blocked_ready = FALSE
  /\ stream_buffers = <<>>
  /\ map_futures = <<>>
  /\ NoCompressor /\ NoDecompressor
  /\ NoFfmpegPipe /\ NoSessions /\ NoDamage /\ NoRecording /\ Unbounded
  /\ NoRenderThread /\ NoReaders /\ NoMapRequests /\ NoCallsAfterFinish

\* The variables of the VideoRecorder a CaptureStream does not have.
recorderOnly == <<recorder, max_buffer_size_in_bytes, video_frames, frame_states,
                  created, delivered, ledger, blocked_ready>>

\* CaptureStream::create_buffer_if_within_memory_limit up to and including the
\* fetch_add.
StreamAdd(size) ==
  /\ ~panicked /\ cap_pc = "idle"
  /\ frame_number < MaxCaptures
  /\ cap_local' = [prev_size |-> buffer_size_in_bytes, frame_size_in_bytes |-> size]
  /\ buffer_size_in_bytes' = WrappingAdd(buffer_size_in_bytes, size)
  /\ cap_pc' = "added"
  /\ UNCHANGED <<recorderOnly, frame_number, panicked, live, strVars>>

\* let should_drop_frame = prev_size > self.max_buffer_size_in_bytes;
ShouldDropFrame(prev_size, max) == prev_size > max

\* The rest of it: the comparison, the store that reverts or the buffer, the frame
\* number and the push_back.
StreamDecide ==
  /\ cap_pc = "added"
  /\ LET size == cap_local.frame_size_in_bytes
         should_drop_frame == ShouldDropFrame(cap_local.prev_size, max_buffer_size_in_bytes)
         n == frame_number + 1
     IN /\ buffer_size_in_bytes' =
             IF should_drop_frame THEN cap_local.prev_size ELSE buffer_size_in_bytes
        /\ frame_number' = n
        /\ stream_buffers' = Append(stream_buffers,
             StreamFrame(IF should_drop_frame THEN None ELSE Some(Pixels(n, size)), n, size))
  /\ cap_pc' = "idle"
  /\ cap_local' = NoLocal
  /\ UNCHANGED <<recorderOnly, panicked, live, map_futures>>

\* CaptureStream::initiate_buffer_mapping: a future for every record that has none
\* yet, None for a record without a buffer.
StreamInitiateBufferMapping ==
  /\ ~panicked /\ cap_pc = "idle"
  /\ Len(map_futures) < Len(stream_buffers)
  /\ map_futures' = [i \in 1..Len(stream_buffers) |->
       IF i <= Len(map_futures) THEN map_futures[i]
       ELSE IF stream_buffers[i].buffer.some THEN "pending" ELSE "none"]
  /\ UNCHANGED <<capVars, stream_buffers>>

\* The device resolves the map request of the i-th record.
StreamMapResolved(i, ok) ==
  /\ ~panicked
  /\ i \in 1..Len(map_futures)
  /\ map_futures[i] = "pending"
  /\ map_futures' = [map_futures EXCEPT ![i] = IF ok THEN "ready" ELSE "failed"]
  /\ UNCHANGED <<capVars, stream_buffers>>

\* The loop of CaptureStream::process_mapped_buffers: inner.map_futures[0] panics
\* on an empty map_futures, result.unwrap() on a failed mapping.
RECURSIVE StreamProcess(_, _, _)
StreamProcess(buffers, futures, out) ==
  IF buffers = <<>>
  THEN [buffers |-> buffers, futures |-> futures, out |-> out, panic |-> FALSE]
  ELSE IF futures = <<>> \/ futures[1] = "failed"
  THEN [buffers |-> buffers, futures |-> futures, out |-> out, panic |-> TRUE]
  ELSE IF futures[1] = "pending"
  THEN [buffers |-> buffers, futures |-> futures, out |-> out, panic |-> FALSE]
  ELSE StreamProcess(Tail(buffers), Tail(futures), Append(out, Head(buffers)))

\* CaptureStream::process_mapped_buffers with a process_function that keeps the
\* records.
StreamProcessMappedBuffers ==
  /\ ~panicked /\ cap_pc = "idle"
  /\ stream_buffers # <<>>
  /\ LET r == StreamProcess(stream_buffers, map_futures, <<>>)
     IN /\ stream_buffers' = r.buffers
        /\ map_futures' = r.futures
        /\ live' = live \cup {r.out[k] : k \in 1..Len(r.out)}
        /\ panicked' = r.panic
  /\ UNCHANGED <<recorderOnly, buffer_size_in_bytes, frame_number, cap_pc, cap_local>>

\* The owner of a record drops it, on any thread (impl Drop for StreamFrame).
StreamFrameDrop(f) ==
  /\ ~panicked
  /\ f \in live
  /\ live' = live \ {f}
  /\ buffer_size_in_bytes' = WrappingSub(buffer_size_in_bytes, StreamFrameDropAmount(f))
  /\ UNCHANGED <<recorderOnly, frame_number, cap_pc, cap_local, panicked, strVars>>

streamRest == <<compVars, decVars, pipeVars, sessVars, intact, recVars, boundVars,
                rtVars, rdrVars, mapVars, finVars>>

NextCaptureStream ==
  \/ \E size \in 1..MaxFrameSize : StreamAdd(size) /\ UNCHANGED streamRest
  \/ StreamDecide /\ UNCHANGED streamRest
  \/ StreamInitiateBufferMapping /\ UNCHANGED streamRest
  \/ \E i \in 1..MaxCaptures : \E ok \in BOOLEAN : StreamMapResolved(i, ok) /\ UNCHANGED streamRest
  \/ StreamProcessMappedBuffers /\ UNCHANGED streamRest
  \/ \E f \in live : StreamFrameDrop(f) /\ UNCHANGED streamRest

SpecCaptureStream == InitCaptureStream /\ [][NextCaptureStream]_vars

\* C37: the counter never goes below 0 (it never wraps around), a capture decision
\* that drops the frame takes off the counter exactly what it added, and the
\* counter is 0 once every StreamFrame has been dropped.
C37_Original ==
  /\ [](buffer_size_in_bytes <= MaxCaptures * MaxFrameSize)
  /\ [][(cap_pc = "added" /\ cap_pc' = "idle"
         /\ ~stream_buffers'[Len(stream_buffers')].buffer.some) =>
          buffer_size_in_bytes' =
            WrappingSub(buffer_size_in_bytes, cap_local.frame_size_in_bytes)]_vars
  /\ []((stream_buffers = <<>> /\ live = {} /\ cap_pc = "idle")
          => buffer_size_in_bytes = 0)

\* Two frames were captured, the second one as a placeholder, and both
\* StreamFrames have been dropped: the counter has wrapped around below 0.
C37_Witness ==
  /\ frame_number = 2
  /\ stream_buffers = <<>> /\ live = {}
  /\ cap_pc = "idle" /\ ~panicked
  /\ buffer_size_in_bytes >= UsizeRange - MaxFrameSize

(***************************************************************************)
(* The encode sink across a change of session.                             *)
(***************************************************************************)
\* The bytes of the last call of write that carried any.
RECURSIVE LastNonEmpty(_)
LastNonEmpty(cs) ==
  IF cs = <<>> THEN <<>>
  ELSE IF cs[Len(cs)].bytes # <<>> THEN cs[Len(cs)].bytes
  ELSE LastNonEmpty(SubSeq(cs, 1, Len(cs) - 1))

\* C38: a write whose timestamp differs from the stored one, with an encoder
\* running, spawns a new encoder for that timestamp and stores the timestamp; when
\* its bytes are empty, prev_bytes stays as it was and the new encoder is written
\* the last non-empty bytes of the session before.
C38_DuplicateAcrossSessions ==
  [][(calls' # calls /\ child # 0
      /\ calls'[Len(calls')].timestamp # ffmpeg_timestamp) =>
        /\ Len(spawned') = Len(spawned) + 1
        /\ child' = Len(spawned') /\ child' # child
        /\ spawned'[child'].timestamp = calls'[Len(calls')].timestamp
        /\ ffmpeg_timestamp' = calls'[Len(calls')].timestamp
        /\ Len(writes') = Len(writes) + 1
        /\ writes'[Len(writes')].child = child'
        /\ calls'[Len(calls')].bytes = <<>> =>
             /\ prev_bytes' = prev_bytes
             /\ prev_bytes.some
             /\ LastNonEmpty(calls) # <<>>
             /\ calls[Len(calls)].timestamp # calls'[Len(calls')].timestamp
             /\ writes'[Len(writes')].bytes = LastNonEmpty(calls)]_vars

\* A frame of session 1 was written, then a record without bytes of session 2:
\* the second encoder got the frame of session 1.
C38_Witness ==
  /\ Len(calls) = 2
  /\ calls[1].bytes # <<>> /\ calls[1].timestamp = 1
  /\ calls[2].bytes = <<>> /\ calls[2].timestamp = 2
  /\ Len(spawned) = 2 /\ child = 2
  /\ Len(writes) = 2
  /\ writes[2].child = 2 /\ writes[2].bytes = calls[1].bytes

(***************************************************************************)
(* Compressor::finish called again, and calls on a finished Compressor.    *)
(***************************************************************************)
\* A finish that takes the sender to be there whenever it is called.
SenderIsNoneNever(s) == FALSE

\* if self.sender.is_none() { return; }
SenderIsNone(s) == ~s

\* The Compressor was dropped, or a call on it panicked.
CompressorGone ==
  \E i \in 1..Len(comp_calls) : comp_calls[i] # "finish returned"

\* finish, or the drop that calls it, on a Compressor whose first finish has
\* returned: it returns at the first line; past it, self.sender.as_ref().unwrap()
\* would panic.
FinishAgain(on_drop) ==
  /\ fin_pc = "done" /\ ~CompressorGone
  /\ Len(comp_calls) < MaxCalls
  /\ comp_calls' = Append(comp_calls,
       IF SenderIsNone(sender)
       THEN (IF on_drop THEN "dropped" ELSE "finish returned")
       ELSE "finish panicked")
  /\ UNCHANGED compVars

\* compress_to_disk on a Compressor whose finish has returned:
\* self.sender.as_ref().unwrap() panics on None, the record is not sent.
CompressAfterFinish ==
  /\ fin_pc = "done" /\ ~sender /\ ~CompressorGone
  /\ Len(comp_calls) < MaxCalls
  /\ comp_calls' = Append(comp_calls, "compress_to_disk panicked")
  /\ UNCHANGED compVars

finishRest == <<pipeVars, sessVars, intact, recVars, boundVars, rtVars, rdrVars,
                mapVars, strVars>>

NextFinish ==
  \/ \E status \in {"Captured", "Dropped"} : SendRecord(status)
  \/ \E w \in DOMAIN threads : WorkerRecv(w) /\ UNCHANGED <<capVars, decVars, extVars>>
  \/ \E w \in DOMAIN threads : WorkerWrite(w) /\ UNCHANGED <<capRest, decVars, extVars>>
  \/ \E w \in DOMAIN threads : WorkerExit(w) /\ UNCHANGED <<capVars, decVars, extVars>>
  \/ FinishCall /\ UNCHANGED <<capVars, decVars, extVars>>
  \/ FinishDisconnect /\ UNCHANGED <<capVars, decVars, extVars>>
  \/ FinishJoin /\ UNCHANGED <<capVars, decVars, extVars>>
  \/ \E on_drop \in BOOLEAN : FinishAgain(on_drop) /\ UNCHANGED <<capVars, decVars, finishRest>>
  \/ CompressAfterFinish /\ UNCHANGED <<capVars, decVars, finishRest>>

\* The worker threads and the thread inside finish are scheduled.
SpecFinish ==
  /\ InitRoundTrip
  /\ [][NextFinish]_vars
  /\ \A w \in 1..MaxWorkers :
       /\ WF_vars(/\ w \in DOMAIN threads
                  /\ WorkerRecv(w) /\ UNCHANGED <<capVars, decVars, extVars>>)
       /\ WF_vars(/\ w \in DOMAIN threads
                  /\ WorkerWrite(w) /\ UNCHANGED <<capRest, decVars, extVars>>)
       /\ WF_vars(/\ w \in DOMAIN threads
                  /\ WorkerExit(w) /\ UNCHANGED <<capVars, decVars, extVars>>)
  /\ WF_vars(FinishDisconnect /\ UNCHANGED <<capVars, decVars, extVars>>)
  /\ WF_vars(FinishJoin /\ UNCHANGED <<capVars, decVars, extVars>>)

\* C39: a finish that was entered returns; when it has returned the channel is
\* empty and disconnected and every worker thread has exited and was joined; a
\* later finish, also the one drop makes, returns and changes nothing; and
\* compress_to_disk on the finished Compressor panics without sending the record.
C39_FinishIdempotent ==
  /\ (fin_pc = "waiting" ~> fin_pc = "done")
  /\ [](fin_pc = "done" =>
          /\ ~sender /\ channel = <<>>
          /\ \A w \in DOMAIN threads : threads[w] = "exited" /\ held[w] = NoFrame
          /\ joined = Len(threads))
  /\ [][comp_calls' # comp_calls =>
          /\ comp_calls'[Len(comp_calls')] \in
               {"finish returned", "dropped", "compress_to_disk panicked"}
          /\ UNCHANGED <<compVars, capVars>>]_vars

\* A session was sent and finished; finish was called again and returned, then
\* compress_to_disk panicked.
C39_Witness ==
  /\ fin_pc = "done"
  /\ Len(accepted) = MaxRecords
  /\ Len(threads) = MaxWorkers
  /\ comp_calls = <<"finish returned", "compress_to_disk panicked">>

====
